---- MODULE Spec2Model ----
(***************************************************************************)
(* Symbol table of esbuild-rs (src/src/ast.rs): the two-level SymbolMap,   *)
(* the union-find over symbols (follow_symbols, follow_all_symbols,        *)
(* merge_symbols) and the readers that resolve references afterwards.      *)
(***************************************************************************)
EXTENDS Integers, Sequences, FiniteSets, TLC

\* ------------------------------------------------------------------ bounds
InnerLen == 2        \* symbols stored in each outer vector
MaxMerges == 3       \* merge_symbols calls in one run
NumReaders == 2      \* threads calling follow_symbols after linking
MaxCalls == 4        \* calls on the table the parsers fill in one run
MaxMsgs == 3         \* diagnostics one worker emits in one run

\* Log::default() creates the channel with sync_channel(1024); the model keeps
\* the bounded buffer and scales its capacity down.
LogCapacity == 2

\* SymbolMap::new(src_count): one outer vector per parsed file; the linker
\* joins the tables of two files.
src_count == 2

\* use_count_estimate is a u32 and wraps at 2^32; the model keeps the wrap and
\* scales the width down to what TLC's integers can hold.
U32Modulus == 65536

VARIABLES
    symbols,          \* SymbolMap.outer, as a function Reference -> Symbol
    overflow_checks,  \* build profiles the run is consistent with: TRUE
                      \* panics on u32 overflow, FALSE wraps
    aborted,          \* the process panicked or overflowed its stack
    initial,          \* history: the table as it was before any merge
    group,            \* history: Reference -> set of symbols merged with it
    nmerges,          \* history: merge_symbols calls so far
    barrier,          \* follow_all_symbols has run and no merge since
    readers,          \* per reader thread: its stack of follow_symbols frames
    compressed,       \* history: a follow_symbols call of the linking thread
                      \* has rewritten a link
    outer,            \* SymbolMap.outer while the parsers fill it: a sequence
                      \* of sequences of symbols (outer[o + 1][i + 1] is the
                      \* slot of Reference {o, i})
    outcome,          \* how the last call on outer ended: "ok",
                      \* "out_of_bounds" or "overflow"
    ncalls,           \* history: calls of SymbolMap's methods so far
    queue,            \* the messages in the buffer of the Log channel
    received,         \* the messages the receiver has taken, in order
    sender_pc,        \* per worker: "idle", or "sending" inside send(msg)
    sent,             \* per worker: how many messages it has passed to send
    kinds,            \* the ScopeKinds of two scopes, an inner one and one
                      \* that encloses it
    answers,          \* what the binder has computed about them so far:
                      \* "none", or the boolean computed as "true" / "false"
    operator,         \* an OperatorCode and what the parser has computed
                      \* about it so far, per method of impl OperatorCode
    string_range,     \* a call of Source::range_of_string: its arguments,
                      \* its locals and its result
    line_and_column,  \* a call of compute_line_and_column
    tab_stops,        \* a call of render_tab_stops and render_tab_stops_len
    detail,           \* a call of MsgDetail::new
    name_from_path    \* a call of generate_non_unique_name_from_path

\* The variables of the union-find over the merged table.
linkvars == <<symbols, aborted, initial, group, nmerges, barrier, readers,
              compressed>>

\* The variables of the table the parsers fill.
tablevars == <<outer, outcome, ncalls>>

\* The variables of the Log channel.
logvars == <<queue, received, sender_pc, sent>>

\* The variables of the binder's questions about scope kinds.
scopevars == <<kinds, answers>>

\* The variables of the calls of the functions on operators and on text.
textvars == <<operator, string_range, line_and_column, tab_stops, detail,
              name_from_path>>

vars == <<overflow_checks, linkvars, tablevars, logvars, scopevars, textvars>>

\* ---------------------------------------------------------------- Reference
Reference(o, i) == [outer |-> o, inner |-> i]

INVALID_REF == Reference(0, 0)

\* Symbol::namespace_alias of a symbol that is no item of an import clause.
NoAlias == [namespace_ref |-> INVALID_REF, alias |-> ""]

\* Every slot symbols.outer[o][i] of the table.
Refs == {Reference(o, i) : o \in 0..(src_count - 1), i \in 0..(InnerLen - 1)}

NumSymbols == src_count * InnerLen

Readers == 1..NumReaders

\* Position of a slot in the iteration order of the table (outer, then inner).
SlotIndex(r) == r.outer * InnerLen + r.inner

RECURSIVE Pow2(_)
Pow2(n) == IF n = 0 THEN 1 ELSE 2 * Pow2(n - 1)

\* Depth of recursion the stack allows.  A call of follow_symbols or
\* merge_symbols that returns does so within 2 * NumSymbols + 1 nested calls,
\* so a recursion that reaches this depth is one that never returns.
StackDepth == 2 * NumSymbols + 2

\* ------------------------------------------------------------ follow_symbols
\* follow_symbols without the write-back of the resolved reference.
RECURSIVE follow_symbols_no_write_back(_, _, _)
follow_symbols_no_write_back(syms, reference, depth) ==
    IF depth = 0
    THEN [symbols |-> syms, ret |-> reference, outcome |-> "stack_overflow",
          visited |-> 0, writes |-> 0]
    ELSE
      LET sym_link == syms[reference].link IN
      IF sym_link = INVALID_REF
      THEN [symbols |-> syms, ret |-> reference, outcome |-> "ok",
            visited |-> 1, writes |-> 0]
      ELSE
        LET r == follow_symbols_no_write_back(syms, sym_link, depth - 1)
        IN  IF r.outcome # "ok"
            THEN r
            ELSE [symbols |-> r.symbols, ret |-> r.ret, outcome |-> "ok",
                  visited |-> r.visited + 1, writes |-> r.writes]

\* follow_symbols whose write-back stores a copy of the resolved symbol with
\* the new link, not the new link alone.
RECURSIVE follow_symbols_copying_root(_, _, _)
follow_symbols_copying_root(syms, reference, depth) ==
    IF depth = 0
    THEN [symbols |-> syms, ret |-> reference, outcome |-> "stack_overflow",
          visited |-> 0, writes |-> 0]
    ELSE
      LET sym_link == syms[reference].link IN
      IF sym_link = INVALID_REF
      THEN [symbols |-> syms, ret |-> reference, outcome |-> "ok",
            visited |-> 1, writes |-> 0]
      ELSE
        LET r == follow_symbols_copying_root(syms, sym_link, depth - 1)
            link == r.ret
        IN  IF r.outcome # "ok"
            THEN r
            ELSE IF sym_link # link
            THEN [symbols |-> [r.symbols EXCEPT ![reference] =
                                  [r.symbols[link] EXCEPT !.link = link]],
                  ret |-> link, outcome |-> "ok",
                  visited |-> r.visited + 1, writes |-> r.writes + 1]
            ELSE [symbols |-> r.symbols, ret |-> link, outcome |-> "ok",
                  visited |-> r.visited + 1, writes |-> r.writes]

\* The result of a call: the table after it, the returned reference, how the
\* call ended ("ok", "stack_overflow", "panic"), the symbols whose link was
\* read (visited) and the links written (writes).
RECURSIVE follow_symbols(_, _, _)
follow_symbols(syms, reference, depth) ==
    IF depth = 0
    THEN [symbols |-> syms, ret |-> reference, outcome |-> "stack_overflow",
          visited |-> 0, writes |-> 0]
    ELSE
      LET sym_link == syms[reference].link IN
      IF sym_link = INVALID_REF
      THEN [symbols |-> syms, ret |-> reference, outcome |-> "ok",
            visited |-> 1, writes |-> 0]
      ELSE
        LET r == follow_symbols(syms, sym_link, depth - 1)
            link == r.ret
        IN  IF r.outcome # "ok"
            THEN r
            ELSE IF sym_link # link
            THEN [symbols |-> [r.symbols EXCEPT ![reference].link = link],
                  ret |-> link, outcome |-> "ok",
                  visited |-> r.visited + 1, writes |-> r.writes + 1]
            ELSE [symbols |-> r.symbols, ret |-> link, outcome |-> "ok",
                  visited |-> r.visited + 1, writes |-> r.writes]

\* -------------------------------------------------------- follow_all_symbols
\* The slots in the order of the two nested loops: for i in 0..outer_len,
\* for j in 0..inner_len.
SlotOrder ==
    [k \in 1..NumSymbols |->
        Reference((k - 1) \div InnerLen, (k - 1) % InnerLen)]

RECURSIVE FollowSlots(_, _, _)
FollowSlots(syms, order, done) ==
    IF order = <<>>
    THEN [symbols |-> syms, outcome |-> "ok", visited |-> done]
    ELSE
      LET r == follow_symbols(syms, Head(order), StackDepth) IN
      IF r.outcome # "ok"
      THEN [symbols |-> r.symbols, outcome |-> r.outcome, visited |-> done]
      ELSE FollowSlots(r.symbols, Tail(order), Append(done, Head(order)))

follow_all_symbols(syms) == FollowSlots(syms, SlotOrder, <<>>)

\* ------------------------------------------------------------- merge_symbols
\* merge_symbols with the two symbols swapped in the final link assignment:
\* new is made to point to old.
RECURSIVE merge_symbols_reversed_link(_, _, _, _, _)
merge_symbols_reversed_link(syms, old, new, checks, depth) ==
    IF depth = 0
    THEN [symbols |-> syms, ret |-> INVALID_REF, outcome |-> "stack_overflow",
          overflowed |-> FALSE]
    ELSE IF old = new
    THEN [symbols |-> syms, ret |-> new, outcome |-> "ok",
          overflowed |-> FALSE]
    ELSE
      LET old_link == syms[old].link IN
      IF old_link # INVALID_REF
      THEN
        LET r == merge_symbols_reversed_link(syms, old_link, new, checks,
                                             depth - 1) IN
        IF r.outcome # "ok"
        THEN r
        ELSE [symbols |-> [r.symbols EXCEPT ![old].link = r.ret],
              ret |-> old_link, outcome |-> "ok",
              overflowed |-> r.overflowed]
      ELSE
        LET new_link == syms[new].link IN
        IF new_link # INVALID_REF
        THEN
          LET r == merge_symbols_reversed_link(syms, old, new_link, checks,
                                               depth - 1) IN
          IF r.outcome # "ok"
          THEN r
          ELSE [symbols |-> [r.symbols EXCEPT ![new].link = r.ret],
                ret |-> new_link, outcome |-> "ok",
                overflowed |-> r.overflowed]
        ELSE
          LET linked == [syms EXCEPT ![new].link = old]
              sum == linked[new].use_count_estimate
                       + linked[old].use_count_estimate
          IN  IF sum >= U32Modulus /\ checks
              THEN [symbols |-> linked, ret |-> INVALID_REF,
                    outcome |-> "panic", overflowed |-> TRUE]
              ELSE
                LET counted == [linked EXCEPT
                        ![new].use_count_estimate = sum % U32Modulus]
                    marked ==
                        IF counted[old].must_not_be_renamed
                        THEN [counted EXCEPT
                                ![new].must_not_be_renamed = TRUE]
                        ELSE counted
                IN  [symbols |-> marked, ret |-> new, outcome |-> "ok",
                     overflowed |-> sum >= U32Modulus]

\* checks is the build's overflow-checks setting; overflowed tells whether
\* the u32 addition overflowed.
RECURSIVE merge_symbols(_, _, _, _, _)
merge_symbols(syms, old, new, checks, depth) ==
    IF depth = 0
    THEN [symbols |-> syms, ret |-> INVALID_REF, outcome |-> "stack_overflow",
          overflowed |-> FALSE]
    ELSE IF old = new
    THEN [symbols |-> syms, ret |-> new, outcome |-> "ok",
          overflowed |-> FALSE]
    ELSE
      LET old_link == syms[old].link IN
      IF old_link # INVALID_REF
      THEN
        LET r == merge_symbols(syms, old_link, new, checks, depth - 1) IN
        IF r.outcome # "ok"
        THEN r
        ELSE [symbols |-> [r.symbols EXCEPT ![old].link = r.ret],
              ret |-> old_link, outcome |-> "ok",
              overflowed |-> r.overflowed]
      ELSE
        LET new_link == syms[new].link IN
        IF new_link # INVALID_REF
        THEN
          LET r == merge_symbols(syms, old, new_link, checks, depth - 1) IN
          IF r.outcome # "ok"
          THEN r
          ELSE [symbols |-> [r.symbols EXCEPT ![new].link = r.ret],
                ret |-> new_link, outcome |-> "ok",
                overflowed |-> r.overflowed]
        ELSE
          LET linked == [syms EXCEPT ![old].link = new]
              sum == linked[new].use_count_estimate
                       + linked[old].use_count_estimate
          IN  IF sum >= U32Modulus /\ checks
              THEN [symbols |-> linked, ret |-> INVALID_REF,
                    outcome |-> "panic", overflowed |-> TRUE]
              ELSE
                LET counted == [linked EXCEPT
                        ![new].use_count_estimate = sum % U32Modulus]
                    marked ==
                        IF counted[old].must_not_be_renamed
                        THEN [counted EXCEPT
                                ![new].must_not_be_renamed = TRUE]
                        ELSE counted
                IN  [symbols |-> marked, ret |-> new, outcome |-> "ok",
                     overflowed |-> sum >= U32Modulus]

\* ---------------------------------------------------------------- SymbolMap
\* SymbolMap::new(src_count): src_count empty vectors.
SymbolMap_new(n) == [o \in 1..n |-> <<>>]

\* The bounds checks of self.outer[index.outer][index.inner], in index and
\* in index_mut: first the outer vector, then the inner one.
InBounds(map, reference) ==
    /\ reference.outer < Len(map)
    /\ reference.inner < Len(map[reference.outer + 1])

\* impl Index<Reference> for SymbolMap: the symbol read, or the panic of the
\* bounds check.
index(map, reference) ==
    IF InBounds(map, reference)
    THEN [outcome |-> "ok",
          symbol |-> map[reference.outer + 1][reference.inner + 1]]
    ELSE [outcome |-> "out_of_bounds"]

\* impl IndexMut<Reference> for SymbolMap, followed by a store through the
\* reference it gives: the table after the store, or the panic of the bounds
\* check.
index_mut(map, reference, symbol) ==
    IF InBounds(map, reference)
    THEN [outcome |-> "ok",
          outer |-> [map EXCEPT
                        ![reference.outer + 1][reference.inner + 1] = symbol]]
    ELSE [outcome |-> "out_of_bounds", outer |-> map]

\* set that skips the store on a reference that fails the bounds check
\* instead of failing.
set_ignoring_bad_reference(map, reference, symbol) ==
    IF InBounds(map, reference)
    THEN index_mut(map, reference, symbol)
    ELSE [outcome |-> "ok", outer |-> map]

\* self[reference] = symbol
set(map, reference, symbol) == index_mut(map, reference, symbol)

\* set_kind that gives the kind to every symbol of the outer vector.
set_kind_whole_vector(map, reference, kind) ==
    IF InBounds(map, reference)
    THEN [outcome |-> "ok",
          outer |-> [map EXCEPT ![reference.outer + 1] =
                        [i \in 1..Len(@) |-> [@[i] EXCEPT !.kind = kind]]]]
    ELSE [outcome |-> "out_of_bounds", outer |-> map]

\* self[reference].kind = kind
set_kind(map, reference, kind) ==
    LET sym == index(map, reference) IN
    IF sym.outcome # "ok"
    THEN [outcome |-> sym.outcome, outer |-> map]
    ELSE index_mut(map, reference, [sym.symbol EXCEPT !.kind = kind])

\* self[reference].namespace_alias = alias
set_namespace_alias(map, reference, alias) ==
    LET sym == index(map, reference) IN
    IF sym.outcome # "ok"
    THEN [outcome |-> sym.outcome, outer |-> map]
    ELSE index_mut(map, reference,
                   [sym.symbol EXCEPT !.namespace_alias = alias])

\* self[reference].use_count_estimate += 1, a u32 addition; checks is the
\* build's overflow-checks setting.
increment_use_count_estimate(map, reference, checks) ==
    LET sym == index(map, reference) IN
    IF sym.outcome # "ok"
    THEN [outcome |-> sym.outcome, outer |-> map]
    ELSE LET sum == sym.symbol.use_count_estimate + 1 IN
         IF sum >= U32Modulus /\ checks
         THEN [outcome |-> "overflow", outer |-> map]
         ELSE index_mut(map, reference,
                        [sym.symbol EXCEPT
                            !.use_count_estimate = sum % U32Modulus])

\* ---------------------------------------------------------------------- Log
\* The workers that hold a sender of the Log: Log::sender and one clone made
\* by clone_sender.
Workers == {"sender", "clone"}

\* The n-th diagnostic a worker emits.
Msg(w, n) == [sender |-> w, seq |-> n]

\* The channel delivers in the order of the sends that delivered into its
\* buffer; this one puts the newest message first.
enqueue_in_front(buffer, msg) == <<msg>> \o buffer

\* A send puts the message at the end of the buffer.
enqueue(buffer, msg) == Append(buffer, msg)

\* Log::default(): an empty channel, no worker sending.
LogInit ==
    /\ queue = <<>>
    /\ received = <<>>
    /\ sender_pc = [w \in Workers |-> "idle"]
    /\ sent = [w \in Workers |-> 0]

\* ---------------------------------------------------------------- ScopeKind
\* The variants of enum ScopeKind in declaration order; the derived Ord
\* compares variants by their position (Block = 0, ..., FunctionBody = 6).
ScopeKindVariants ==
    <<"Block", "With", "Label", "ClassName",
      "Entry", "FunctionArgs", "FunctionBody">>

ScopeKinds == {ScopeKindVariants[k] : k \in DOMAIN ScopeKindVariants}

\* The discriminant of a variant.
Discriminant(kind) ==
    (CHOOSE k \in DOMAIN ScopeKindVariants : ScopeKindVariants[k] = kind) - 1

\* a < b and a >= b of the derived PartialOrd
ScopeKindLt(a, b) == Discriminant(a) < Discriminant(b)

ScopeKindGe(a, b) == Discriminant(a) >= Discriminant(b)

\* stops_hoisting with the comparison made against the variant after Entry.
stops_hoisting_from_function_args(self) == ScopeKindGe(self, "FunctionArgs")

\* self >= ScopeKind::Entry
stops_hoisting(self) == ScopeKindGe(self, "Entry")

\* Nothing has been asked about the pair of scopes (the pair used where the
\* scope kinds play no part).
ScopeInit ==
    /\ kinds = [inner |-> "Block", enclosing |-> "Entry"]
    /\ answers = [inner |-> "none", enclosing |-> "none", below |-> "none"]

\* ------------------------------------------------------------- OperatorCode
\* The variants of enum OperatorCode in declaration order; the derived Ord
\* compares variants by their position (UnOpPos = 0, ...).
OperatorCodeVariants ==
    <<"UnOpPos", "UnOpNeg", "UnOpCpl", "UnOpNot", "UnOpVoid", "UnOpTypeof",
      "UnOpDelete",
      "UnOpPreDec", "UnOpPreInc",
      "UnOpPostDec", "UnOpPostInc",
      "BinOpAdd", "BinOpSub", "BinOpMul", "BinOpDiv", "BinOpRem", "BinOpPow",
      "BinOpLt", "BinOpLe", "BinOpGt", "BinOpGe", "BinOpIn",
      "BinOpInstanceof", "BinOpShl", "BinOpShr", "BinOpUShr", "BinOpLooseEq",
      "BinOpLooseNe", "BinOpStrictEq", "BinOpStrictNe",
      "BinOpNullishCoalescing", "BinOpLogicalOr", "BinOpLogicalAnd",
      "BinOpBitwiseOr", "BinOpBitwiseAnd", "BinOpBitwiseXor",
      "BinOpComma",
      "BinOpAssign", "BinOpAddAssign", "BinOpSubAssign", "BinOpMulAssign",
      "BinOpDivAssign", "BinOpRemAssign", "BinOpPowAssign", "BinOpShlAssign",
      "BinOpShrAssign", "BinOpUShrAssign", "BinOpBitwiseOrAssign",
      "BinOpBitwiseAndAssign", "BinOpBitwiseXorAssign">>

OperatorCodes ==
    {OperatorCodeVariants[k] : k \in DOMAIN OperatorCodeVariants}

\* The discriminant of a variant of OperatorCode.
OperatorCodeDiscriminant(code) ==
    (CHOOSE k \in DOMAIN OperatorCodeVariants :
        OperatorCodeVariants[k] = code) - 1

\* a < b, a <= b and a >= b of the derived PartialOrd
OperatorCodeLt(a, b) ==
    OperatorCodeDiscriminant(a) < OperatorCodeDiscriminant(b)

OperatorCodeLe(a, b) ==
    OperatorCodeDiscriminant(a) <= OperatorCodeDiscriminant(b)

OperatorCodeGe(a, b) ==
    OperatorCodeDiscriminant(a) >= OperatorCodeDiscriminant(b)

\* self < OperatorCode::UnOpPostDec
is_prefix(self) == OperatorCodeLt(self, "UnOpPostDec")

\* self >= OperatorCode::UnOpPreDec && self <= OperatorCode::UnOpPostInc
is_unary_update(self) ==
    OperatorCodeGe(self, "UnOpPreDec") /\ OperatorCodeLe(self, "UnOpPostInc")

\* is_left_associative without the exception made for BinOpPow.
is_left_associative_with_pow(self) ==
    OperatorCodeGe(self, "BinOpAdd") /\ OperatorCodeLt(self, "BinOpComma")

\* self >= BinOpAdd && self < BinOpComma && self != BinOpPow
is_left_associative(self) ==
    /\ OperatorCodeGe(self, "BinOpAdd")
    /\ OperatorCodeLt(self, "BinOpComma")
    /\ self # "BinOpPow"

\* self >= BinOpAssign || self == BinOpPow
is_right_associative(self) ==
    OperatorCodeGe(self, "BinOpAssign") \/ self = "BinOpPow"

\* self >= BinOpAssign
is_binary_assign(self) == OperatorCodeGe(self, "BinOpAssign")

\* The methods of impl OperatorCode, and the result of one on a code.
OperatorMethods ==
    {"is_prefix", "is_unary_update", "is_left_associative",
     "is_right_associative", "is_binary_assign"}

OperatorMethod(method, self) ==
    CASE method = "is_prefix" -> is_prefix(self)
      [] method = "is_unary_update" -> is_unary_update(self)
      [] method = "is_left_associative" -> is_left_associative(self)
      [] method = "is_right_associative" -> is_right_associative(self)
      [] method = "is_binary_assign" -> is_binary_assign(self)

\* Nothing has been asked about the operator at hand.
NothingAsked == [method \in OperatorMethods |-> "none"]

OperatorInit == operator = [code |-> "UnOpPos", answers |-> NothingAsked]

\* ------------------------------------------------------------- functions on text
\* A String is the sequence of its chars, a char is its code point. The
\* chars the functions on text tell apart:
Tab == 9
LineFeed == 10
CarriageReturn == 13
Space == 32
DoubleQuote == 34
SingleQuote == 39
FullStop == 46
Caret == 94
Underscore == 95
Backslash == 92
Tilde == 126
LetterA == 97
LetterZ == 122
LatinCapitalA == 65
LatinCapitalZ == 90
DigitZero == 48
DigitNine == 57
HyphenMinus == 45
LatinSmallEAcute == 233
LineSeparator == 8232
ParagraphSeparator == 8233

\* The strings of at most n chars of the set chars.
Strings(chars, n) == UNION {[1..k -> chars] : k \in 0..n}

\* char::len_utf8: the bytes a char takes in a String (for the chars up to
\* U+FFFF).
len_utf8(c) == IF c < 128 THEN 1 ELSE IF c < 2048 THEN 2 ELSE 3

\* The UTF-8 encoding of a char.
encode_utf8(c) ==
    IF c < 128 THEN <<c>>
    ELSE IF c < 2048 THEN <<192 + (c \div 64), 128 + (c % 64)>>
    ELSE <<224 + (c \div 4096), 128 + ((c \div 64) % 64), 128 + (c % 64)>>

\* str::as_bytes
RECURSIVE as_bytes(_)
as_bytes(str) ==
    IF str = <<>> THEN <<>>
    ELSE encode_utf8(Head(str)) \o as_bytes(Tail(str))

\* ------------------------------------------------- Source::range_of_string
\* The longest source text tried.
MaxText == 3

\* The chars of the source texts tried: the two quotes, the backslash, a
\* letter and a char of two bytes.
StringChars ==
    {DoubleQuote, SingleQuote, Backslash, LetterA, LatinSmallEAcute}

\* A call range_of_string(location) on a source with the given contents,
\* before its first statement; iterations is history: whether the body of
\* the while loop has run an odd number of times.
RangeOfStringCall(contents, location) ==
    [contents |-> contents, location |-> location, pc |-> "call",
     i |-> 0, range |-> <<>>, iterations |-> "even"]

\* let text = &bytes[location..]
TextAt(call) ==
    LET bytes == as_bytes(call.contents)
    IN  SubSeq(bytes, call.location + 1, Len(bytes))

\* No call of range_of_string is in progress.
StringIdle == string_range = RangeOfStringCall(<<>>, 0)

\* ------------------------------------------------ compute_line_and_column
\* The longest text tried.
MaxLine == 4

\* The chars of the texts tried: the four line terminators and a letter.
LineChars ==
    {LineFeed, CarriageReturn, LineSeparator, ParagraphSeparator, LetterA}

\* str::len: the length of a String in bytes.
RECURSIVE len(_)
len(str) ==
    IF str = <<>> THEN 0 ELSE len_utf8(Head(str)) + len(Tail(str))

\* The for loop of compute_line_and_column from the char of index i on
\* (text.chars().enumerate() counts chars), with the values of its three
\* locals.
RECURSIVE line_and_column_loop(_, _, _, _, _)
line_and_column_loop(text, i, prev_code, last_line_start, line_count) ==
    IF i >= Len(text)
    THEN [last_line_start |-> last_line_start, line_count |-> line_count]
    ELSE
      LET code == text[i + 1] IN
      IF code = LineFeed
      THEN line_and_column_loop(text, i + 1, code, i + 1,
               IF prev_code # CarriageReturn
               THEN line_count + 1
               ELSE line_count)
      ELSE IF code \in {CarriageReturn, LineSeparator, ParagraphSeparator}
      THEN line_and_column_loop(text, i + 1, code, i + 1, line_count)
      ELSE line_and_column_loop(text, i + 1, code, last_line_start,
                                line_count)

\* compute_line_and_column(text): the triple it returns
compute_line_and_column(text) ==
    LET r == line_and_column_loop(text, 0, 0, 0, 0)
    IN  [line_count |-> r.line_count,
         column_count |-> len(text) - r.last_line_start,
         last_line_start |-> r.last_line_start]

\* A call of compute_line_and_column(text) before it has run.
LineAndColumnCall(text) == [text |-> text, pc |-> "call", result |-> <<>>]

\* No call of compute_line_and_column is in progress.
LinesIdle == line_and_column = LineAndColumnCall(<<>>)

\* ------------------------------------------------------- render_tab_stops
\* The longest text and the widest tab stop tried.
MaxTabbed == 4
MaxSpacesPerTab == 3

\* The chars of the texts tried: the tab, two chars of one byte and one of
\* two bytes.
TabChars == {Tab, Space, LetterA, LatinSmallEAcute}

\* with_tabs.contains('\t')
contains_tab(with_tabs) == \E k \in DOMAIN with_tabs : with_tabs[k] = Tab

\* The for loop of render_tab_stops_len with every tab counted as
\* spaces_per_tab columns.
RECURSIVE tab_stops_len_loop_full_tabs(_, _, _)
tab_stops_len_loop_full_tabs(with_tabs, spaces_per_tab, count) ==
    IF with_tabs = <<>> THEN count
    ELSE IF Head(with_tabs) = Tab
    THEN tab_stops_len_loop_full_tabs(Tail(with_tabs), spaces_per_tab,
             count + spaces_per_tab)
    ELSE tab_stops_len_loop_full_tabs(Tail(with_tabs), spaces_per_tab,
             count + 1)

render_tab_stops_len_full_tabs(with_tabs, spaces_per_tab) ==
    IF ~contains_tab(with_tabs)
    THEN len(with_tabs)
    ELSE tab_stops_len_loop_full_tabs(with_tabs, spaces_per_tab, 0)

\* The for loop of render_tab_stops_len over the chars left, with the value
\* of count.
RECURSIVE tab_stops_len_loop(_, _, _)
tab_stops_len_loop(with_tabs, spaces_per_tab, count) ==
    IF with_tabs = <<>> THEN count
    ELSE IF Head(with_tabs) = Tab
    THEN tab_stops_len_loop(Tail(with_tabs), spaces_per_tab,
             count + (spaces_per_tab - (count % spaces_per_tab)))
    ELSE tab_stops_len_loop(Tail(with_tabs), spaces_per_tab, count + 1)

\* render_tab_stops_len(with_tabs, spaces_per_tab)
render_tab_stops_len(with_tabs, spaces_per_tab) ==
    IF ~contains_tab(with_tabs)
    THEN len(with_tabs)
    ELSE tab_stops_len_loop(with_tabs, spaces_per_tab, 0)

\* " ".repeat(n), and the inner loop of render_tab_stops that pushes spaces
\* spaces.
repeat(c, n) == [k \in 1..n |-> c]

\* The for loop of render_tab_stops over the chars left, with the values of
\* without_tabs and count.
RECURSIVE tab_stops_loop(_, _, _, _)
tab_stops_loop(with_tabs, spaces_per_tab, without_tabs, count) ==
    IF with_tabs = <<>> THEN without_tabs
    ELSE IF Head(with_tabs) = Tab
    THEN LET spaces == spaces_per_tab - (count % spaces_per_tab) IN
         tab_stops_loop(Tail(with_tabs), spaces_per_tab,
                        without_tabs \o repeat(Space, spaces), count + spaces)
    ELSE tab_stops_loop(Tail(with_tabs), spaces_per_tab,
                        Append(without_tabs, Head(with_tabs)), count + 1)

\* render_tab_stops(with_tabs, spaces_per_tab)
render_tab_stops(with_tabs, spaces_per_tab) ==
    IF ~contains_tab(with_tabs)
    THEN with_tabs
    ELSE tab_stops_loop(with_tabs, spaces_per_tab, <<>>, 0)

\* The two functions about to be called on a text, and no call in progress.
TabStopsCall(with_tabs, spaces_per_tab) ==
    [with_tabs |-> with_tabs, spaces_per_tab |-> spaces_per_tab,
     rendered |-> <<>>, rendered_len |-> <<>>]

TabsIdle == tab_stops = TabStopsCall(<<>>, 2)

\* ----------------------------------------------------------- MsgDetail::new
\* The longest source text tried.
MaxContents == 5

\* The chars of the source texts tried: a letter, the tab, the line feed and
\* a char of two bytes.
DetailChars == {LetterA, Tab, LineFeed, LatinSmallEAcute}

\* The values of msg.length and of terminal_info.width tried: width 0 is no
\* terminal, width 4 is narrower than the longest lines.
Lengths == {0, 2}
Widths == {0, 4}

\* str::is_char_boundary: the byte offset is the start of a char of str or
\* its end.
is_char_boundary(str, offset) ==
    \E k \in 0..Len(str) : len(SubSeq(str, 1, k)) = offset

\* Whether &str[from..to] is a string slice or a panic, and the slice.
can_slice(str, from, to) ==
    /\ from <= to
    /\ to <= len(str)
    /\ is_char_boundary(str, from)
    /\ is_char_boundary(str, to)

chars_before(str, offset) ==
    CHOOSE k \in 0..Len(str) : len(SubSeq(str, 1, k)) = offset

slice(str, from, to) ==
    SubSeq(str, chars_before(str, from) + 1, chars_before(str, to))

\* The loop 'a (logging.rs:296-304): line_end for the text rest that starts
\* at line_start, with i counting chars.
find_line_end(rest, line_start, contents_len) ==
    LET ends == {k \in DOMAIN rest :
                    rest[k] \in {CarriageReturn, LineFeed, LineSeparator,
                                 ParagraphSeparator}}
    IN  IF ends = {} THEN contents_len
        ELSE line_start + ((CHOOSE k \in ends : \A j \in ends : k <= j) - 1)

\* "Clip the marker to the bounds of the line" (logging.rs:322-333)
clip_marker(marker_start, marker_end, line_text_len) ==
    LET clipped_start == IF marker_start > line_text_len
                         THEN line_text_len ELSE marker_start
        clipped_end == IF marker_end > line_text_len
                       THEN line_text_len ELSE marker_end
    IN  [marker_start |-> clipped_start,
         marker_end |-> IF clipped_end < clipped_start
                        THEN clipped_start ELSE clipped_end]

\* The choice of slice_start (logging.rs:338-356)
choose_slice_start(marker_start, marker_end, line_text_len, width) ==
    LET centered ==
            IF marker_start + marker_end >= width
            THEN LET slice_start == (marker_start + marker_end - width) \div 2
                 IN  IF marker_start >= width \div 5
                     THEN LET temp == marker_start - width \div 5
                          IN  IF slice_start > temp THEN temp ELSE slice_start
                     ELSE 0
            ELSE 0
    IN  IF centered > line_text_len - width
        THEN line_text_len - width
        ELSE centered

\* trim_to_width that leaves marker_end as it was before the line was
\* sliced.
trim_to_width_unclipped_end(line_text, marker_start, marker_end, width) ==
    LET line_text_len == len(line_text) IN
    IF width > 0 /\ line_text_len > width
    THEN
      LET slice_start == choose_slice_start(marker_start, marker_end,
                                            line_text_len, width)
          slice_end == slice_start + width
      IN  IF ~can_slice(line_text, slice_start, slice_end)
          THEN [outcome |-> "panicked"]
          ELSE
            LET sliced_line == slice(line_text, slice_start, slice_end)
                new_start == IF marker_start > slice_start
                             THEN marker_start - slice_start ELSE 0
            IN  IF len(sliced_line) > 3 /\ slice_start > 0
                THEN IF ~can_slice(sliced_line, 3, len(sliced_line))
                     THEN [outcome |-> "panicked"]
                     ELSE [outcome |-> "ok",
                           line_text |-> repeat(FullStop, 3) \o
                               slice(sliced_line, 3, len(sliced_line)),
                           marker_start |-> new_start,
                           marker_end |-> marker_end,
                           indent |-> repeat(Space, new_start)]
                ELSE [outcome |-> "ok", line_text |-> sliced_line,
                      marker_start |-> new_start, marker_end |-> marker_end,
                      indent |-> repeat(Space, new_start)]
    ELSE [outcome |-> "ok", line_text |-> line_text,
          marker_start |-> marker_start, marker_end |-> marker_end,
          indent |-> <<>>]

\* "Trim the line to fit the terminal width" (logging.rs:335-380): the line,
\* the marker and, when the line was sliced, the indent computed anew.
trim_to_width(line_text, marker_start, marker_end, width) ==
    LET line_text_len == len(line_text) IN
    IF width > 0 /\ line_text_len > width
    THEN
      LET slice_start == choose_slice_start(marker_start, marker_end,
                                            line_text_len, width)
          slice_end == slice_start + width
      IN  IF ~can_slice(line_text, slice_start, slice_end)
          THEN [outcome |-> "panicked"]
          ELSE
            LET sliced_line == slice(line_text, slice_start, slice_end)
                new_start == IF marker_start > slice_start
                             THEN marker_start - slice_start ELSE 0
                new_end == IF marker_end > len(sliced_line)
                           THEN len(sliced_line) ELSE marker_end
            IN  IF len(sliced_line) > 3 /\ slice_start > 0
                THEN IF ~can_slice(sliced_line, 3, len(sliced_line))
                     THEN [outcome |-> "panicked"]
                     ELSE [outcome |-> "ok",
                           line_text |-> repeat(FullStop, 3) \o
                               slice(sliced_line, 3, len(sliced_line)),
                           marker_start |-> new_start,
                           marker_end |-> new_end,
                           indent |-> repeat(Space, new_start)]
                ELSE [outcome |-> "ok", line_text |-> sliced_line,
                      marker_start |-> new_start, marker_end |-> new_end,
                      indent |-> repeat(Space, new_start)]
    ELSE [outcome |-> "ok", line_text |-> line_text,
          marker_start |-> marker_start, marker_end |-> marker_end,
          indent |-> <<>>]

\* The struct MsgDetail::new returns (logging.rs:382-398), without the
\* fields copied from msg; marker_end - marker_start is a usize.
make_detail(lc, trimmed, indent) ==
    [outcome |-> IF trimmed.marker_end < trimmed.marker_start
                 THEN "underflow" ELSE "ok",
     line |-> lc.line_count + 1,
     column |-> lc.column_count,
     source |-> trimmed.line_text,
     source_before |-> trimmed.marker_start,
     source_marked |-> <<trimmed.marker_start, trimmed.marker_end>>,
     source_after |-> trimmed.marker_end,
     indent |-> indent,
     marker |-> IF trimmed.marker_end - trimmed.marker_start > 1
                THEN repeat(Tilde, trimmed.marker_end - trimmed.marker_start)
                ELSE <<Caret>>]

\* MsgDetail::new(msg, terminal_info)
MsgDetail_new(msg, terminal_info) ==
    LET contents == msg.source.contents
        spaces_per_tab == 2
    IN
    IF ~can_slice(contents, 0, msg.start)
    THEN [outcome |-> "panicked"]
    ELSE
      LET lc == compute_line_and_column(slice(contents, 0, msg.start))
          line_start == lc.last_line_start
      IN
      IF ~can_slice(contents, line_start, len(contents))
      THEN [outcome |-> "panicked"]
      ELSE
        LET line_end ==
                find_line_end(slice(contents, line_start, len(contents)),
                              line_start, len(contents))
        IN
        IF \/ ~can_slice(contents, line_start, line_end)
           \/ ~can_slice(contents, line_start, msg.start)
        THEN [outcome |-> "panicked"]
        ELSE
          LET line_text ==
                  render_tab_stops(slice(contents, line_start, line_end),
                                   spaces_per_tab)
              indent ==
                  repeat(Space,
                      render_tab_stops_len(
                          slice(contents, line_start, msg.start),
                          spaces_per_tab))
              marker_start == Len(indent)
              marker_end ==
                  IF msg.length > 0
                  THEN render_tab_stops_len(
                           slice(contents, line_start, msg.start),
                           spaces_per_tab)
                  ELSE Len(indent)
              clipped == clip_marker(marker_start, marker_end,
                                     len(line_text))
              trimmed == trim_to_width(line_text, clipped.marker_start,
                                       clipped.marker_end,
                                       terminal_info.width)
          IN  IF trimmed.outcome # "ok"
              THEN [outcome |-> "panicked"]
              ELSE make_detail(lc, trimmed,
                       IF terminal_info.width > 0
                          /\ len(line_text) > terminal_info.width
                       THEN trimmed.indent
                       ELSE indent)

\* MsgDetail::source_before, source_marked and source_after: whether the
\* index is a string slice or a panic, and the slice.
can_source_before(self) == can_slice(self.source, 0, self.source_before)

source_before(self) == slice(self.source, 0, self.source_before)

can_source_marked(self) ==
    can_slice(self.source, self.source_marked[1], self.source_marked[2])

source_marked(self) ==
    slice(self.source, self.source_marked[1], self.source_marked[2])

can_source_after(self) ==
    can_slice(self.source, self.source_after, len(self.source))

source_after(self) == slice(self.source, self.source_after, len(self.source))

\* A call MsgDetail::new(msg, terminal_info) before it has run, for a message
\* about length bytes at start of a source with the given contents.
MsgDetailCall(contents, start, length, width) ==
    [msg |-> [source |-> [contents |-> contents], start |-> start,
              length |-> length],
     terminal_info |-> [width |-> width],
     pc |-> "call", result |-> <<>>]

\* No call of MsgDetail::new is in progress.
DetailIdle == detail = MsgDetailCall(<<>>, 0, 0, 0)

\* ------------------------------------- generate_non_unique_name_from_path
\* The longest file stem tried.
MaxStem == 4

\* The chars of the file stems tried: two letters, the first and the last
\* digit, the underscore and a hyphen.
StemChars ==
    {LetterA, LatinCapitalZ, DigitZero, DigitNine, Underscore, HyphenMinus}

\* The test of the if in the loop (ast.rs:1078-1080); the range '0'..'9'
\* excludes its end.
is_kept(name, c) ==
    \/ LatinCapitalA <= c /\ c <= LatinCapitalZ
    \/ LetterA <= c /\ c <= LetterZ
    \/ name # <<>> /\ DigitZero <= c /\ c < DigitNine

\* The for loop over the chars left of the file stem, with the values of
\* name and tail (<<>> is None, <<c>> is Some(c)).
RECURSIVE name_loop(_, _, _)
name_loop(chars, name, tail) ==
    IF chars = <<>> THEN name
    ELSE
      LET c == Head(chars) IN
      IF is_kept(name, c)
      THEN name_loop(Tail(chars), Append(name, c), <<c>>)
      ELSE IF name # <<>> /\ tail # <<Underscore>>
      THEN name_loop(Tail(chars), Append(name, Underscore), <<Underscore>>)
      ELSE name_loop(Tail(chars), name, tail)

\* generate_non_unique_name_from_path(path), for a path given by what
\* path.file_stem() returns for it: <<>> is None, <<stem>> is Some(stem).
generate_non_unique_name_from_path(file_stem) ==
    LET name == IF file_stem = <<>>
                THEN <<>>
                ELSE name_loop(file_stem[1], <<>>, <<>>)
    IN  IF name = <<>> THEN <<Underscore>> ELSE name

\* A call of generate_non_unique_name_from_path before it has run.
NameFromPathCall(file_stem) ==
    [file_stem |-> file_stem, pc |-> "call", name |-> <<>>]

\* No call of generate_non_unique_name_from_path is in progress.
NameIdle == name_from_path = NameFromPathCall(<<>>)

\* None of the functions on operators and on text has been called.
TextIdle ==
    /\ OperatorInit
    /\ StringIdle
    /\ LinesIdle
    /\ TabsIdle
    /\ DetailIdle
    /\ NameIdle

\* ------------------------------------------------------------ initial state
\* A symbol as the parser stores it: not yet merged, so its link is
\* INVALID_REF.  The use counts are distinct powers of two, so that a sum of
\* counts tells which symbols were added to it and how often.
NewSymbol(r, flagged) ==
    [kind |-> "Other",
     must_not_be_renamed |-> (r \in flagged),
     use_count_estimate |-> Pow2(SlotIndex(r)),
     name |-> "",
     link |-> INVALID_REF,
     namespace_alias |-> NoAlias]

\* The symbols the parser marked must_not_be_renamed: none, the symbol of
\* the first slot or the symbol of the last slot.
FlagChoices ==
    {{}, {Reference(0, 0)}, {Reference(src_count - 1, InnerLen - 1)}}

\* The linker has not started: the merged table as the parsers left it, none
\* of its symbols marked must_not_be_renamed.
LinkIdle ==
    /\ symbols = [r \in Refs |-> NewSymbol(r, {})]
    /\ aborted = FALSE
    /\ initial = symbols
    /\ group = [r \in Refs |-> {r}]
    /\ nmerges = 0
    /\ barrier = FALSE
    /\ readers = [t \in Readers |-> <<>>]
    /\ compressed = FALSE

\* SymbolMap::new(src_count), no call made on the table yet.
TableInit ==
    /\ outer = SymbolMap_new(src_count)
    /\ outcome = "ok"
    /\ ncalls = 0

Init ==
    /\ \E flagged \in FlagChoices :
          symbols = [r \in Refs |-> NewSymbol(r, flagged)]
    /\ overflow_checks = BOOLEAN
    /\ aborted = FALSE
    /\ initial = symbols
    /\ group = [r \in Refs |-> {r}]
    /\ nmerges = 0
    /\ barrier = FALSE
    /\ readers = [t \in Readers |-> <<>>]
    /\ compressed = FALSE
    /\ TableInit
    /\ LogInit
    /\ ScopeInit
    /\ TextIdle

\* No thread is inside follow_symbols: the table can be borrowed mutably.
Quiescent == \A t \in Readers : readers[t] = <<>>

\* ------------------------------------------------------------------ actions
\* merge_symbols(symbols, old, new)
MergeSymbols(old, new) ==
    /\ ~aborted
    /\ Quiescent
    /\ nmerges < MaxMerges
    /\ \E checks \in overflow_checks :
         LET r == merge_symbols(symbols, old, new, checks, StackDepth)
             g == group[old] \cup group[new]
         IN  /\ symbols' = r.symbols
             /\ aborted' = (r.outcome # "ok")
             /\ overflow_checks' =
                    IF r.overflowed THEN {checks} ELSE overflow_checks
             /\ group' = [x \in Refs |-> IF x \in g THEN g ELSE group[x]]
    /\ nmerges' = nmerges + 1
    /\ barrier' = FALSE
    /\ UNCHANGED <<initial, readers, compressed>>
    /\ UNCHANGED <<tablevars, logvars, scopevars, textvars>>

\* follow_symbols(symbols, reference), called by the single linking thread
FollowSymbols(reference) ==
    /\ ~aborted
    /\ Quiescent
    /\ LET r == follow_symbols(symbols, reference, StackDepth) IN
           /\ symbols' = r.symbols
           /\ aborted' = (r.outcome # "ok")
           /\ compressed' = (compressed \/ (r.outcome = "ok" /\ r.writes >= 1))
    /\ UNCHANGED <<overflow_checks, initial, group, nmerges, barrier, readers>>
    /\ UNCHANGED <<tablevars, logvars, scopevars, textvars>>

\* follow_all_symbols(symbols)
FollowAllSymbols ==
    /\ ~aborted
    /\ Quiescent
    /\ LET r == follow_all_symbols(symbols) IN
           /\ symbols' = r.symbols
           /\ aborted' = (r.outcome # "ok")
           /\ barrier' = (r.outcome = "ok")
    /\ UNCHANGED <<overflow_checks, initial, group, nmerges, readers,
                   compressed>>
    /\ UNCHANGED <<tablevars, logvars, scopevars, textvars>>

\* ---------------------------------------------- follow_symbols, step by step
\* A reader thread runs follow_symbols one memory access at a time.  Its stack
\* holds one frame per active call: the argument, the link read (sym_link),
\* the value the recursive call returned (link) and the position in the body.
Frame(reference) ==
    [reference |-> reference, sym_link |-> INVALID_REF, link |-> INVALID_REF,
     pc |-> "read"]

Top(stack) == stack[Len(stack)]

Pop(stack) == SubSeq(stack, 1, Len(stack) - 1)

\* A call returns value to the frame below it, which goes on to its
\* write-back test; the outermost call leaves the thread idle.
Return(stack, value) ==
    IF stack = <<>>
    THEN <<>>
    ELSE [stack EXCEPT ![Len(stack)].link = value,
                       ![Len(stack)].pc = "write_back"]

\* A thread enters follow_symbols(symbols, reference); the threads are
\* started after follow_all_symbols.
ReaderCall(t, reference) ==
    /\ ~aborted
    /\ readers[t] = <<>>
    /\ barrier
    /\ readers' = [readers EXCEPT ![t] = <<Frame(reference)>>]
    /\ UNCHANGED <<symbols, overflow_checks, aborted, initial, group,
                   nmerges, barrier, compressed>>
    /\ UNCHANGED <<tablevars, logvars, scopevars, textvars>>

\* let sym_link = symbols[reference].link; return or recurse
ReaderRead(t) ==
    /\ ~aborted
    /\ readers[t] # <<>>
    /\ Top(readers[t]).pc = "read"
    /\ LET stack == readers[t]
           top == Top(stack)
           sym_link == symbols[top.reference].link
       IN  IF sym_link = INVALID_REF
           THEN /\ readers' = [readers EXCEPT
                       ![t] = Return(Pop(stack), top.reference)]
                /\ aborted' = aborted
           ELSE IF Len(stack) >= StackDepth
           THEN /\ readers' = readers
                /\ aborted' = TRUE
           ELSE /\ readers' = [readers EXCEPT ![t] =
                       Append([stack EXCEPT ![Len(stack)].sym_link = sym_link,
                                            ![Len(stack)].pc = "called"],
                              Frame(sym_link))]
                /\ aborted' = aborted
    /\ UNCHANGED <<symbols, overflow_checks, initial, group, nmerges,
                   barrier, compressed>>
    /\ UNCHANGED <<tablevars, logvars, scopevars, textvars>>

\* if sym_link != link { symbols[reference].link = link; } link
ReaderWriteBack(t) ==
    /\ ~aborted
    /\ readers[t] # <<>>
    /\ Top(readers[t]).pc = "write_back"
    /\ LET stack == readers[t]
           top == Top(stack)
       IN  /\ symbols' = IF top.sym_link # top.link
                         THEN [symbols EXCEPT ![top.reference].link = top.link]
                         ELSE symbols
           /\ readers' = [readers EXCEPT ![t] = Return(Pop(stack), top.link)]
    /\ UNCHANGED <<overflow_checks, aborted, initial, group, nmerges,
                   barrier, compressed>>
    /\ UNCHANGED <<tablevars, logvars, scopevars, textvars>>

\* ------------------------------------------------- the parsers' table calls
\* Values of Symbol::namespace_alias: NoAlias, and the alias of an item of
\* the namespace stored at {0, 1}.
Aliases == {NoAlias, [namespace_ref |-> Reference(0, 1), alias |-> "ns"]}

\* Values of SymbolKind the parsers use here.
Kinds == {"Unbound", "Hoisted"}

\* A symbol as a parser declares it, used count times so far.
DeclaredSymbol(count) ==
    [kind |-> "Unbound", must_not_be_renamed |-> FALSE,
     use_count_estimate |-> count, link |-> INVALID_REF,
     namespace_alias |-> NoAlias]

\* The symbols a parser pushes: never used, or used u32::MAX times.
DeclaredSymbols == {DeclaredSymbol(count) : count \in {0, U32Modulus - 1}}

\* The symbols a parser passes to set: the declared ones, of either kind.
SymbolValues ==
    {[symbol EXCEPT !.kind = kind] :
        symbol \in DeclaredSymbols, kind \in Kinds}

\* A call of one of the four mutators of impl SymbolMap with its argument,
\* and its result on a table.
Calls ==
    [op : {"set"}, arg : SymbolValues]
        \cup [op : {"set_kind"}, arg : Kinds]
        \cup [op : {"set_namespace_alias"}, arg : Aliases]
        \cup [op : {"increment_use_count_estimate"}, arg : {0}]

Apply(map, reference, call, checks) ==
    CASE call.op = "set" -> set(map, reference, call.arg)
      [] call.op = "set_kind" -> set_kind(map, reference, call.arg)
      [] call.op = "set_namespace_alias" ->
            set_namespace_alias(map, reference, call.arg)
      [] call.op = "increment_use_count_estimate" ->
            increment_use_count_estimate(map, reference, checks)

\* The references the calls are made with: those of the slots and those one
\* past the end of the outer vector or of an inner vector.
AnyRefs == {Reference(o, i) : o \in 0..src_count, i \in 0..InnerLen}

\* A call on the table can be made: no call has panicked.
TableReady == outcome = "ok" /\ ncalls < MaxCalls

\* symbols.outer[o].push(symbol): the parser of file o declares a symbol.
Push(o, symbol) ==
    /\ TableReady
    /\ Len(outer[o + 1]) < InnerLen
    /\ outer' = [outer EXCEPT ![o + 1] = Append(@, symbol)]
    /\ outcome' = "ok"
    /\ ncalls' = ncalls + 1
    /\ UNCHANGED <<overflow_checks, linkvars, logvars, scopevars, textvars>>

\* symbols.set(reference, symbol)
Set(reference, symbol) ==
    /\ TableReady
    /\ LET r == set(outer, reference, symbol) IN
           /\ outer' = r.outer
           /\ outcome' = r.outcome
    /\ ncalls' = ncalls + 1
    /\ UNCHANGED <<overflow_checks, linkvars, logvars, scopevars, textvars>>

\* symbols.set_kind(reference, kind)
SetKind(reference, kind) ==
    /\ TableReady
    /\ LET r == set_kind(outer, reference, kind) IN
           /\ outer' = r.outer
           /\ outcome' = r.outcome
    /\ ncalls' = ncalls + 1
    /\ UNCHANGED <<overflow_checks, linkvars, logvars, scopevars, textvars>>

\* symbols.set_namespace_alias(reference, alias)
SetNamespaceAlias(reference, alias) ==
    /\ TableReady
    /\ LET r == set_namespace_alias(outer, reference, alias) IN
           /\ outer' = r.outer
           /\ outcome' = r.outcome
    /\ ncalls' = ncalls + 1
    /\ UNCHANGED <<overflow_checks, linkvars, logvars, scopevars, textvars>>

\* symbols.increment_use_count_estimate(reference)
IncrementUseCountEstimate(reference) ==
    /\ TableReady
    /\ \E checks \in overflow_checks :
         LET r == increment_use_count_estimate(outer, reference, checks) IN
             /\ outer' = r.outer
             /\ outcome' = r.outcome
             /\ overflow_checks' =
                    IF /\ InBounds(outer, reference)
                       /\ index(outer, reference).symbol.use_count_estimate
                              = U32Modulus - 1
                    THEN {checks}
                    ELSE overflow_checks
    /\ ncalls' = ncalls + 1
    /\ UNCHANGED <<linkvars, logvars, scopevars, textvars>>

\* --------------------------------------------- use counts at link time
\* The merged table as the vectors SymbolMap keeps, and back.
AsOuter(syms) ==
    [o \in 1..src_count |->
        [i \in 1..InnerLen |-> syms[Reference(o - 1, i - 1)]]]

AsSymbols(map) == [r \in Refs |-> index(map, r).symbol]

\* symbols.increment_use_count_estimate(reference) on the merged table
IncrementUseCount(reference) ==
    /\ ~aborted
    /\ Quiescent
    /\ ncalls < MaxCalls
    /\ \E checks \in overflow_checks :
         LET r == increment_use_count_estimate(AsOuter(symbols), reference,
                                               checks)
         IN  /\ symbols' = AsSymbols(r.outer)
             /\ aborted' = (r.outcome # "ok")
             /\ overflow_checks' =
                    IF symbols[reference].use_count_estimate = U32Modulus - 1
                    THEN {checks}
                    ELSE overflow_checks
    /\ ncalls' = ncalls + 1
    /\ UNCHANGED <<initial, group, nmerges, barrier, readers, compressed,
                   outer, outcome, logvars, scopevars, textvars>>

\* ------------------------------------------------------- the Log's channel
\* A worker calls send(msg) on its SyncSender with its next diagnostic.
SendCall(w) ==
    /\ sender_pc[w] = "idle"
    /\ sent[w] < MaxMsgs
    /\ sender_pc' = [sender_pc EXCEPT ![w] = "sending"]
    /\ sent' = [sent EXCEPT ![w] = @ + 1]
    /\ UNCHANGED <<queue, received, overflow_checks, linkvars, tablevars,
                   scopevars, textvars>>

\* send returns: on a channel made by sync_channel(n) it does so once the
\* buffer, which holds n messages, has taken the message.
SendReturn(w) ==
    /\ sender_pc[w] = "sending"
    /\ Len(queue) < LogCapacity
    /\ queue' = enqueue(queue, Msg(w, sent[w]))
    /\ sender_pc' = [sender_pc EXCEPT ![w] = "idle"]
    /\ UNCHANGED <<received, sent, overflow_checks, linkvars, tablevars,
                   scopevars, textvars>>

\* The holder of Log::receiver takes the oldest message of the buffer.
Recv ==
    /\ queue # <<>>
    /\ received' = Append(received, Head(queue))
    /\ queue' = Tail(queue)
    /\ UNCHANGED <<sender_pc, sent, overflow_checks, linkvars, tablevars,
                   scopevars, textvars>>

\* ------------------------------------------- the binder's scope questions
\* A computed boolean as the binder keeps it.
Answer(b) == IF b THEN "true" ELSE "false"

\* scope.kind.stops_hoisting() for one of the two scopes
AskStopsHoisting(which) ==
    /\ answers[which] = "none"
    /\ answers' = [answers EXCEPT ![which] =
                                        Answer(stops_hoisting(kinds[which]))]
    /\ UNCHANGED <<kinds, overflow_checks, linkvars, tablevars, logvars,
                   textvars>>

\* inner.kind < enclosing.kind
AskBelow ==
    /\ answers.below = "none"
    /\ answers' = [answers EXCEPT !.below =
                      Answer(ScopeKindLt(kinds.inner, kinds.enclosing))]
    /\ UNCHANGED <<kinds, overflow_checks, linkvars, tablevars, logvars,
                   textvars>>

\* ------------------------------------------- the parser's operator questions
\* operator.method() for the operator at hand
AskOperator(method) ==
    /\ operator.answers[method] = "none"
    /\ operator' = [operator EXCEPT !.answers[method] =
                        Answer(OperatorMethod(method, operator.code))]
    /\ UNCHANGED <<string_range, line_and_column, tab_stops, detail,
                   name_from_path>>
    /\ UNCHANGED <<overflow_checks, linkvars, tablevars, logvars, scopevars>>

\* ---------------------------------------- range_of_string, step by step
\* range_of_string from its first statement to the test of its while loop,
\* or to its return when there is no loop to run (logging.rs:147-156)
RangeOfStringEnter ==
    /\ string_range.pc = "call"
    /\ LET location == string_range.location
           bytes == as_bytes(string_range.contents)
           text == TextAt(string_range)
       IN  string_range' =
             IF location > Len(bytes)
             THEN [string_range EXCEPT !.pc = "panicked"]
             ELSE IF text = <<>>
             THEN [string_range EXCEPT !.pc = "returned",
                                       !.range = <<location, location>>]
             ELSE IF text[1] = DoubleQuote \/ text[1] = SingleQuote
             THEN [string_range EXCEPT !.pc = "loop", !.i = 1]
             ELSE [string_range EXCEPT !.pc = "returned",
                                       !.range = <<location, location>>]
    /\ UNCHANGED <<operator, line_and_column, tab_stops, detail,
                   name_from_path>>
    /\ UNCHANGED <<overflow_checks, linkvars, tablevars, logvars, scopevars>>

\* One test of the while loop and, when it passes, one run of its body
\* (logging.rs:157-164); when it fails, the return after the loop (167).
RangeOfStringLoop ==
    /\ string_range.pc = "loop"
    /\ LET location == string_range.location
           text == TextAt(string_range)
           quote == text[1]
           i == string_range.i
           ran == IF string_range.iterations = "even" THEN "odd" ELSE "even"
       IN  string_range' =
             IF i < Len(text)
             THEN LET c == text[i + 1] IN
                  IF c = quote
                  THEN [string_range EXCEPT !.pc = "returned",
                                            !.range = <<location, i + 1>>,
                                            !.iterations = ran]
                  ELSE IF c = Backslash
                  THEN [string_range EXCEPT !.i = i + 1, !.iterations = ran]
                  ELSE [string_range EXCEPT !.iterations = ran]
             ELSE [string_range EXCEPT !.pc = "returned",
                                       !.range = <<location, location>>]
    /\ UNCHANGED <<operator, line_and_column, tab_stops, detail,
                   name_from_path>>
    /\ UNCHANGED <<overflow_checks, linkvars, tablevars, logvars, scopevars>>

\* ------------------------------------------------ the functions on text
\* compute_line_and_column(text)
ComputeLineAndColumn ==
    /\ line_and_column.pc = "call"
    /\ line_and_column' =
           [line_and_column EXCEPT
               !.pc = "returned",
               !.result = <<compute_line_and_column(line_and_column.text)>>]
    /\ UNCHANGED <<operator, string_range, tab_stops, detail,
                   name_from_path>>
    /\ UNCHANGED <<overflow_checks, linkvars, tablevars, logvars, scopevars>>

\* render_tab_stops(with_tabs, spaces_per_tab)
RenderTabStops ==
    /\ tab_stops.rendered = <<>>
    /\ tab_stops' =
           [tab_stops EXCEPT !.rendered =
               <<render_tab_stops(tab_stops.with_tabs,
                                  tab_stops.spaces_per_tab)>>]
    /\ UNCHANGED <<operator, string_range, line_and_column, detail,
                   name_from_path>>
    /\ UNCHANGED <<overflow_checks, linkvars, tablevars, logvars, scopevars>>

\* render_tab_stops_len(with_tabs, spaces_per_tab)
RenderTabStopsLen ==
    /\ tab_stops.rendered_len = <<>>
    /\ tab_stops' =
           [tab_stops EXCEPT !.rendered_len =
               <<render_tab_stops_len(tab_stops.with_tabs,
                                      tab_stops.spaces_per_tab)>>]
    /\ UNCHANGED <<operator, string_range, line_and_column, detail,
                   name_from_path>>
    /\ UNCHANGED <<overflow_checks, linkvars, tablevars, logvars, scopevars>>

\* MsgDetail::new(msg, terminal_info)
NewMsgDetail ==
    /\ detail.pc = "call"
    /\ LET r == MsgDetail_new(detail.msg, detail.terminal_info) IN
           detail' = [detail EXCEPT
                         !.pc = IF r.outcome = "panicked"
                                THEN "panicked" ELSE "returned",
                         !.result = <<r>>]
    /\ UNCHANGED <<operator, string_range, line_and_column, tab_stops,
                   name_from_path>>
    /\ UNCHANGED <<overflow_checks, linkvars, tablevars, logvars, scopevars>>

\* generate_non_unique_name_from_path(path)
GenerateNonUniqueNameFromPath ==
    /\ name_from_path.pc = "call"
    /\ name_from_path' =
           [name_from_path EXCEPT
               !.pc = "returned",
               !.name = generate_non_unique_name_from_path(
                            name_from_path.file_stem)]
    /\ UNCHANGED <<operator, string_range, line_and_column, tab_stops,
                   detail>>
    /\ UNCHANGED <<overflow_checks, linkvars, tablevars, logvars, scopevars>>

\* ----------------------------------------------------------- specifications
\* The linking thread alone: merges and follows in any order.
Next ==
    \/ \E old \in Refs, new \in Refs : MergeSymbols(old, new)
    \/ \E reference \in Refs : FollowSymbols(reference)
    \/ FollowAllSymbols

Spec == Init /\ [][Next]_vars

\* The linker merging symbols, nothing else.
NextMerge == \E old \in Refs, new \in Refs : MergeSymbols(old, new)

SpecMerge == Init /\ [][NextMerge]_vars

\* Linking, then reader threads that call follow_symbols concurrently.
NextReaders ==
    \/ \E old \in Refs, new \in Refs : MergeSymbols(old, new)
    \/ FollowAllSymbols
    \/ \E t \in Readers, reference \in Refs : ReaderCall(t, reference)
    \/ \E t \in Readers : ReaderRead(t)
    \/ \E t \in Readers : ReaderWriteBack(t)

SpecReaders == Init /\ [][NextReaders]_vars

\* The parsers filling the table of SymbolMap::new(src_count), before any
\* merge: the calls of the parsers of the src_count files in any order.
InitTable ==
    /\ TableInit
    /\ overflow_checks = BOOLEAN
    /\ LinkIdle
    /\ LogInit
    /\ ScopeInit
    /\ TextIdle

NextTable ==
    \/ \E o \in 0..(src_count - 1), symbol \in DeclaredSymbols :
          Push(o, symbol)
    \/ \E reference \in AnyRefs, symbol \in SymbolValues :
          Set(reference, symbol)
    \/ \E reference \in AnyRefs, kind \in Kinds : SetKind(reference, kind)
    \/ \E reference \in AnyRefs, alias \in Aliases :
          SetNamespaceAlias(reference, alias)
    \/ \E reference \in AnyRefs : IncrementUseCountEstimate(reference)

SpecTable == InitTable /\ [][NextTable]_vars

\* Workers emitting diagnostics through the senders of one Log while the
\* receiver takes them, or does not.
InitLog ==
    /\ LogInit
    /\ overflow_checks = BOOLEAN
    /\ LinkIdle
    /\ TableInit
    /\ ScopeInit
    /\ TextIdle

NextLog ==
    \/ \E w \in Workers : SendCall(w)
    \/ \E w \in Workers : SendReturn(w)
    \/ Recv

SpecLog == InitLog /\ [][NextLog]_vars

\* The binder asking, for two scopes of any kinds, whether each stops
\* hoisting and how the kinds compare.
InitScope ==
    /\ kinds \in [inner : ScopeKinds, enclosing : ScopeKinds]
    /\ answers = [inner |-> "none", enclosing |-> "none", below |-> "none"]
    /\ overflow_checks = BOOLEAN
    /\ LinkIdle
    /\ TableInit
    /\ LogInit
    /\ TextIdle

NextScope ==
    \/ \E which \in {"inner", "enclosing"} : AskStopsHoisting(which)
    \/ AskBelow

SpecScope == InitScope /\ [][NextScope]_vars

\* Linking a table in which the symbols of the first file have been counted
\* almost u32::MAX times: the use counts of its symbols are u32::MAX,
\* u32::MAX - 1, u32::MAX - 3, ..., those of the other files small.
HeavilyUsedSymbol(r) ==
    [NewSymbol(r, {}) EXCEPT !.use_count_estimate =
        IF r.outer = 0
        THEN U32Modulus - Pow2(r.inner)
        ELSE Pow2(SlotIndex(r))]

InitCount ==
    /\ symbols = [r \in Refs |-> HeavilyUsedSymbol(r)]
    /\ overflow_checks = BOOLEAN
    /\ aborted = FALSE
    /\ initial = symbols
    /\ group = [r \in Refs |-> {r}]
    /\ nmerges = 0
    /\ barrier = FALSE
    /\ readers = [t \in Readers |-> <<>>]
    /\ compressed = FALSE
    /\ TableInit
    /\ LogInit
    /\ ScopeInit
    /\ TextIdle

NextCount ==
    \/ \E reference \in Refs : IncrementUseCount(reference)
    \/ \E old \in Refs, new \in Refs : MergeSymbols(old, new)
    \/ \E reference \in Refs : FollowSymbols(reference)
    \/ FollowAllSymbols

SpecCount == InitCount /\ [][NextCount]_vars

\* The parser asking about the associativity and the kind of an operator.
InitOperator ==
    /\ operator \in [code : OperatorCodes, answers : {NothingAsked}]
    /\ StringIdle
    /\ LinesIdle
    /\ TabsIdle
    /\ DetailIdle
    /\ NameIdle
    /\ overflow_checks = BOOLEAN
    /\ LinkIdle
    /\ TableInit
    /\ LogInit
    /\ ScopeInit

NextOperator == \E method \in OperatorMethods : AskOperator(method)

SpecOperator == InitOperator /\ [][NextOperator]_vars

\* A call of range_of_string on a source text, at a location within the text
\* or one past its end; the thread that runs it keeps running.
InitString ==
    /\ string_range \in
           {RangeOfStringCall(contents, location) :
               contents \in Strings(StringChars, MaxText),
               location \in 0..(2 * MaxText + 1)}
    /\ string_range.location <= Len(as_bytes(string_range.contents)) + 1
    /\ OperatorInit
    /\ LinesIdle
    /\ TabsIdle
    /\ DetailIdle
    /\ NameIdle
    /\ overflow_checks = BOOLEAN
    /\ LinkIdle
    /\ TableInit
    /\ LogInit
    /\ ScopeInit

NextString ==
    \/ RangeOfStringEnter
    \/ RangeOfStringLoop

SpecString == InitString /\ [][NextString]_vars /\ WF_vars(NextString)

\* A call of compute_line_and_column on a text.
InitLines ==
    /\ line_and_column \in
           {LineAndColumnCall(text) : text \in Strings(LineChars, MaxLine)}
    /\ OperatorInit
    /\ StringIdle
    /\ TabsIdle
    /\ DetailIdle
    /\ NameIdle
    /\ overflow_checks = BOOLEAN
    /\ LinkIdle
    /\ TableInit
    /\ LogInit
    /\ ScopeInit

NextLines == ComputeLineAndColumn

SpecLines == InitLines /\ [][NextLines]_vars

\* The two tab stop functions called on a text, with tab stops every
\* spaces_per_tab >= 1 columns.
InitTabs ==
    /\ tab_stops \in
           {TabStopsCall(with_tabs, spaces_per_tab) :
               with_tabs \in Strings(TabChars, MaxTabbed),
               spaces_per_tab \in 1..MaxSpacesPerTab}
    /\ OperatorInit
    /\ StringIdle
    /\ LinesIdle
    /\ DetailIdle
    /\ NameIdle
    /\ overflow_checks = BOOLEAN
    /\ LinkIdle
    /\ TableInit
    /\ LogInit
    /\ ScopeInit

NextTabs ==
    \/ RenderTabStops
    \/ RenderTabStopsLen

SpecTabs == InitTabs /\ [][NextTabs]_vars

\* A call of MsgDetail::new for a message that starts within the contents
\* of its source.
InitDetail ==
    /\ detail \in
           {MsgDetailCall(contents, start, length, width) :
               contents \in Strings(DetailChars, MaxContents),
               start \in 0..(2 * MaxContents),
               length \in Lengths,
               width \in Widths}
    /\ detail.msg.start <= len(detail.msg.source.contents)
    /\ OperatorInit
    /\ StringIdle
    /\ LinesIdle
    /\ TabsIdle
    /\ NameIdle
    /\ overflow_checks = BOOLEAN
    /\ LinkIdle
    /\ TableInit
    /\ LogInit
    /\ ScopeInit

NextDetail == NewMsgDetail

SpecDetail == InitDetail /\ [][NextDetail]_vars

\* A call of generate_non_unique_name_from_path on a path without a file
\* stem or with one.
InitName ==
    /\ name_from_path \in
           {NameFromPathCall(file_stem) :
               file_stem \in {<<>>} \cup
                   {<<stem>> : stem \in Strings(StemChars, MaxStem)}}
    /\ OperatorInit
    /\ StringIdle
    /\ LinesIdle
    /\ TabsIdle
    /\ DetailIdle
    /\ overflow_checks = BOOLEAN
    /\ LinkIdle
    /\ TableInit
    /\ LogInit
    /\ ScopeInit

NextName == GenerateNonUniqueNameFromPath

SpecName == InitName /\ [][NextName]_vars

\* ------------------------------------------------------- derived quantities
\* The canonical reference of s, as follow_symbols computes it.
Canon(syms, s) == follow_symbols(syms, s, StackDepth).ret

IsRoot(syms, s) == syms[s].link = INVALID_REF

\* The symbols met from s by following link fields, s first, without any
\* write; at most fuel of them.
RECURSIVE LinkPath(_, _, _)
LinkPath(syms, s, fuel) ==
    IF fuel = 0
    THEN <<>>
    ELSE IF syms[s].link = INVALID_REF
    THEN <<s>>
    ELSE <<s>> \o LinkPath(syms, syms[s].link, fuel - 1)

PathOf(syms, s) == LinkPath(syms, s, NumSymbols + 1)

RECURSIVE SumUseCount(_, _)
SumUseCount(syms, refs) ==
    IF refs = {}
    THEN 0
    ELSE LET x == CHOOSE y \in refs : TRUE
         IN  syms[x].use_count_estimate + SumUseCount(syms, refs \ {x})

\* Every chain has length at most one.
Flat(syms) ==
    \A s \in Refs : IsRoot(syms, s) \/ IsRoot(syms, syms[s].link)

\* ================================================================== claims
Distinct3(a, b, c) == a # b /\ a # c /\ b # c

\* C1: after any sequence of merge_symbols calls the link graph has no
\* cycle: from every symbol, following link fields reaches a symbol whose
\* link is INVALID_REF without visiting any symbol twice.
NoLinkCycle ==
    \A s \in Refs :
        LET p == PathOf(symbols, s) IN
        /\ Len(p) <= NumSymbols
        /\ IsRoot(symbols, p[Len(p)])
        /\ Cardinality({p[k] : k \in 1..Len(p)}) = Len(p)

\* C2: after any sequence of merge_symbols calls, follow_symbols returns the
\* same canonical reference for all symbols that were ever merged together,
\* directly or transitively (so also for old and new right after
\* merge_symbols(old, new)).
MergedSymbolsShareCanonical ==
    \A s \in Refs : \A t \in group[s] :
        /\ follow_symbols(symbols, s, StackDepth).outcome = "ok"
        /\ Canon(symbols, s) = Canon(symbols, t)

\* C3: in a table of N symbols reached by merge_symbols calls,
\* follow_symbols(ref) terminates for every ref after visiting at most N
\* symbols.
FollowTerminatesWithinN ==
    \A reference \in Refs :
        LET r == follow_symbols(symbols, reference, StackDepth) IN
        /\ r.outcome = "ok"
        /\ r.visited <= NumSymbols

\* C4: merge_symbols(old, new) returns the canonical reference of the merged
\* group: after the call the returned reference has link = INVALID_REF and is
\* what follow_symbols gives for old and for new, also when old or new had a
\* link before the call.  Stated here for the calls with old # new on
\* symbols other than the one in slot {0,0}, which the claim covers.
MergeReturnsCanonical ==
    [][\A old \in Refs \ {INVALID_REF}, new \in Refs \ {INVALID_REF} :
        (old # new /\ MergeSymbols(old, new) /\ ~aborted') =>
            \A checks \in overflow_checks :
                LET ret == merge_symbols(symbols, old, new, checks,
                                         StackDepth).ret
                IN  /\ symbols'[ret].link = INVALID_REF
                    /\ ret = Canon(symbols', old)
                    /\ ret = Canon(symbols', new)]_vars

\* C5: slot {0,0} is reserved, so a link equal to INVALID_REF always means
\* "no link": a call merge_symbols(old, new) on two different symbols that
\* both have no link leaves old with a link, whatever symbol new is.
InvalidRefMeansNoLink ==
    [][\A old \in Refs, new \in Refs :
        (/\ old # new
         /\ IsRoot(symbols, old)
         /\ IsRoot(symbols, new)
         /\ MergeSymbols(old, new)
         /\ ~aborted') => symbols'[old].link # INVALID_REF]_vars

\* C6: use_count_estimate is conserved: after any sequence of merge_symbols
\* calls the count of each group's canonical symbol is the sum of the
\* pre-merge counts of the symbols of the group, each counted once.
UseCountConserved ==
    \A s \in Refs :
        symbols[Canon(symbols, s)].use_count_estimate
            = SumUseCount(initial, group[s])

\* C7: must_not_be_renamed is monotonic over merge groups: if a symbol of a
\* group had the flag before being merged, then for every symbol s of the
\* group the symbol at follow_symbols(s) has it, and no call clears the flag
\* of any symbol.
MustNotBeRenamedSticky ==
    \A s \in Refs :
        /\ (\E g \in group[s] : initial[g].must_not_be_renamed)
              => symbols[Canon(symbols, s)].must_not_be_renamed
        /\ initial[s].must_not_be_renamed => symbols[s].must_not_be_renamed

\* The table and result of merge_symbols(a, b) followed by
\* merge_symbols(c, result of the first call).
MergeThenMerge(syms, a, b, c) ==
    LET first == merge_symbols(syms, a, b, FALSE, StackDepth)
    IN  merge_symbols(first.symbols, c, first.ret, FALSE, StackDepth)

\* C8: for distinct symbols A, B, C without a link, merging A into B and then
\* C into the result leaves A, B and C with the same canonical reference as
\* merging C into B and then A into the result.
MergeOrderIndependent ==
    \A a \in Refs, b \in Refs, c \in Refs :
        (/\ Distinct3(a, b, c)
         /\ IsRoot(symbols, a) /\ IsRoot(symbols, b) /\ IsRoot(symbols, c))
        => LET abc == MergeThenMerge(symbols, a, b, c)
               cba == MergeThenMerge(symbols, c, b, a)
           IN  /\ abc.outcome = "ok"
               /\ cba.outcome = "ok"
               /\ \A x \in {a, b, c} :
                     Canon(abc.symbols, x) = Canon(cba.symbols, x)

\* The two merges of C8 have run on the table the parser left, and A, B and
\* C now resolve to B.
MergeOrderWitness ==
    /\ nmerges = 2
    /\ \E a \in Refs, b \in Refs \ {INVALID_REF}, c \in Refs :
          /\ Distinct3(a, b, c)
          /\ symbols = MergeThenMerge(initial, a, b, c).symbols
          /\ Canon(symbols, a) = b
          /\ Canon(symbols, c) = b
          /\ Canon(MergeThenMerge(initial, c, b, a).symbols, a) = b

\* C9: follow_all_symbols visits every (outer, inner) slot exactly once, and
\* when it returns every link is INVALID_REF or points at a symbol whose link
\* is INVALID_REF.
FollowAllVisitsAndFlattens ==
    [][FollowAllSymbols =>
        LET r == follow_all_symbols(symbols) IN
        /\ Len(r.visited) = NumSymbols
        /\ \A s \in Refs :
              Cardinality({k \in 1..Len(r.visited) : r.visited[k] = s}) = 1
        /\ Flat(symbols')]_vars

\* A reader is about to store into a link field.
PendingWrite(t) ==
    /\ readers[t] # <<>>
    /\ Top(readers[t]).pc = "write_back"
    /\ Top(readers[t]).sym_link # Top(readers[t]).link

\* A reader is about to load the link field of s.
PendingRead(t, s) ==
    /\ readers[t] # <<>>
    /\ Top(readers[t]).pc = "read"
    /\ Top(readers[t]).reference = s

\* C10: once follow_all_symbols has completed and no merge_symbols follows,
\* readers that call follow_symbols concurrently never write to the table:
\* no state has a reader about to write a link, alone or while another
\* reader reads or writes it.
ReadersNeverWrite ==
    \A t \in Readers : (readers[t] # <<>>) => (barrier /\ ~PendingWrite(t))

\* After the barrier, on a table with a merged symbol, one reader has reached
\* the write-back test of that symbol while another is about to read its
\* link.
ReadersOverlapWitness ==
    /\ barrier
    /\ \E t \in Readers, u \in Readers, s \in Refs :
          /\ t # u
          /\ ~IsRoot(symbols, s)
          /\ readers[t] # <<>>
          /\ Top(readers[t]).pc = "write_back"
          /\ Top(readers[t]).reference = s
          /\ PendingRead(u, s)

\* C11: follow_symbols(ref) performs full path compression: when a call on
\* the current table returns the root r, in the table it leaves every symbol
\* on the chain from ref other than r has link = r,
\* r itself has no link, and the links written are exactly the links whose
\* value changed (no link is rewritten with the value it had, no symbol off
\* the chain is touched).
FollowCompressesPath ==
    \A reference \in Refs :
        LET r == follow_symbols(symbols, reference, StackDepth)
            p == PathOf(symbols, reference)
            onPath == {p[k] : k \in 1..Len(p)}
            changed == {s \in Refs : r.symbols[s] # symbols[s]}
        IN  (r.outcome = "ok") =>
                /\ IsRoot(r.symbols, r.ret)
                /\ r.ret = p[Len(p)]
                /\ \A s \in onPath \ {r.ret} : r.symbols[s].link = r.ret
                /\ changed \subseteq onPath
                /\ r.writes = Cardinality(changed)
                /\ \A s \in changed :
                      r.symbols[s] = [symbols[s] EXCEPT !.link = r.ret]

\* A follow_symbols call of the linking thread has rewritten a link, and two
\* symbols now point directly at one root.
FollowCompressedWitness ==
    /\ compressed
    /\ ~aborted
    /\ \E a \in Refs, b \in Refs :
          /\ a # b
          /\ ~IsRoot(symbols, a)
          /\ symbols[a].link = symbols[b].link
          /\ IsRoot(symbols, symbols[a].link)

\* The chain of links from s comes back to a symbol it has already visited.
HasCycleFrom(syms, s) == Len(PathOf(syms, s)) > NumSymbols

\* C12: follow_symbols called on a table whose link graph has a cycle on the
\* chain of its argument ends with an explicit error outcome: the call is
\* given up and reports the failure, rather than recursing until the stack
\* is exhausted.
CycleEndsInError ==
    \A reference \in Refs :
        HasCycleFrom(symbols, reference) =>
            follow_symbols(symbols, reference, StackDepth).outcome = "error"

\* C13: storing a symbol for a reference and then reading the reference
\* gives back the symbol stored, for every reference whose outer index is
\* below the src_count the table was created with; and two references with
\* different outer indices are different references, also when their inner
\* indices are equal.
SetThenIndexRoundTrip ==
    /\ \A reference \in AnyRefs, symbol \in SymbolValues :
          (reference.outer < src_count) =>
              LET stored == set(outer, reference, symbol) IN
              /\ stored.outcome = "ok"
              /\ index(stored.outer, reference)
                    = [outcome |-> "ok", symbol |-> symbol]
    /\ \A a \in AnyRefs, b \in AnyRefs : (a.outer # b.outer) => (a # b)

\* reference.outer is not an existing outer index, or reference.inner is not
\* an existing position of that outer vector.
Malformed(map, reference) ==
    ~ \E o \in 1..Len(map) :
          /\ reference.outer = o - 1
          /\ \E i \in 1..Len(map[o]) : reference.inner = i - 1

\* C14: an access by reference (index, index_mut, set, set_kind,
\* set_namespace_alias, increment_use_count_estimate) fails with the
\* out-of-bounds error exactly when the reference is malformed, and an access
\* that fails leaves the table as it was.
AccessFailsIffMalformed ==
    \A reference \in AnyRefs :
        /\ (index(outer, reference).outcome = "out_of_bounds")
              <=> Malformed(outer, reference)
        /\ \A symbol \in SymbolValues :
              LET r == index_mut(outer, reference, symbol) IN
              /\ (r.outcome = "out_of_bounds") <=> Malformed(outer, reference)
              /\ (r.outcome # "ok") => (r.outer = outer)
        /\ \A call \in Calls, checks \in overflow_checks :
              LET r == Apply(outer, reference, call, checks) IN
              /\ (r.outcome = "out_of_bounds") <=> Malformed(outer, reference)
              /\ (r.outcome # "ok") => (r.outer = outer)

\* Every file has declared a symbol, and a call on the table has then failed
\* with the out-of-bounds error.
OutOfBoundsWitness ==
    /\ outcome = "out_of_bounds"
    /\ \A o \in 1..Len(outer) : outer[o] # <<>>

\* The slots of a table.
SlotsOf(map) == {reference \in AnyRefs : InBounds(map, reference)}

\* The table after is the table before with the symbol at reference replaced
\* by symbol, and nothing else changed.
OnlySlotChanged(before, after, reference, symbol) ==
    /\ Len(after) = Len(before)
    /\ \A o \in 1..Len(before) : Len(after[o]) = Len(before[o])
    /\ index(after, reference).symbol = symbol
    /\ \A other \in SlotsOf(before) \ {reference} :
          index(after, other) = index(before, other)

\* C15: set, set_kind, set_namespace_alias and increment_use_count_estimate
\* on a reference change the addressed symbol only (the last three its named
\* field only) and leave every other symbol, of the same and of every other
\* outer index, as it was; so two calls on references of different outer
\* indices give the same table and the same outcomes in either order.
CallsChangeOnlyTheirSlot ==
    /\ \A reference \in SlotsOf(outer), checks \in overflow_checks :
          LET old == index(outer, reference).symbol
              count == (old.use_count_estimate + 1) % U32Modulus
          IN
          /\ \A symbol \in SymbolValues :
                OnlySlotChanged(outer, set(outer, reference, symbol).outer,
                                reference, symbol)
          /\ \A kind \in Kinds :
                OnlySlotChanged(outer, set_kind(outer, reference, kind).outer,
                                reference, [old EXCEPT !.kind = kind])
          /\ \A alias \in Aliases :
                OnlySlotChanged(
                    outer, set_namespace_alias(outer, reference, alias).outer,
                    reference, [old EXCEPT !.namespace_alias = alias])
          /\ LET r == increment_use_count_estimate(outer, reference, checks)
             IN  IF r.outcome = "ok"
                 THEN OnlySlotChanged(
                          outer, r.outer, reference,
                          [old EXCEPT !.use_count_estimate = count])
                 ELSE r.outer = outer
    /\ \A a \in SlotsOf(outer), b \in SlotsOf(outer) :
          (a.outer # b.outer) =>
              \A f \in Calls, g \in Calls, checks \in overflow_checks :
                  LET fg == Apply(Apply(outer, a, f, checks).outer, b, g,
                                  checks)
                      gf == Apply(Apply(outer, b, g, checks).outer, a, f,
                                  checks)
                  IN  /\ fg.outer = gf.outer
                      /\ fg.outcome = Apply(outer, b, g, checks).outcome
                      /\ gf.outcome = Apply(outer, a, f, checks).outcome

\* The parsers of two files have both changed a symbol of their own outer
\* vector after declaring it: one gave its symbol a namespace alias, the
\* other counted a use of its symbol.
TwoOwnersWitness ==
    /\ outcome = "ok"
    /\ \E a \in SlotsOf(outer), b \in SlotsOf(outer) :
          /\ a.outer # b.outer
          /\ index(outer, a).symbol.namespace_alias # NoAlias
          /\ index(outer, b).symbol.use_count_estimate = 1

\* C16: emitting a diagnostic never blocks: whenever a worker is inside send,
\* the send can return at once, whatever the number of messages sent and not
\* yet received.
SendNeverBlocks ==
    \A w \in Workers : (sender_pc[w] = "sending") => ENABLED SendReturn(w)

\* The messages of worker w in a sequence of messages, in their order there.
RECURSIVE FromSender(_, _)
FromSender(msgs, w) ==
    IF msgs = <<>>
    THEN <<>>
    ELSE IF Head(msgs).sender = w
    THEN <<Head(msgs)>> \o FromSender(Tail(msgs), w)
    ELSE FromSender(Tail(msgs), w)

\* The messages send has returned for, per worker.
Delivered(w) ==
    IF sender_pc[w] = "sending" THEN sent[w] - 1 ELSE sent[w]

\* C17: with several workers sending through cloned senders of one Log, the
\* receiver gets the messages of each sender in the order the sender emitted
\* them, whatever the interleaving with other senders, and no message is
\* lost or duplicated: what was received and what the buffer still holds is,
\* for each sender, exactly the messages its sends have returned for, in
\* order.
PerSenderOrderKept ==
    \A w \in Workers :
        FromSender(received \o queue, w)
            = [n \in 1..Delivered(w) |-> Msg(w, n)]

\* The receiver has taken messages of both senders, the second message of
\* one before the first of the other, and every message emitted.
InterleavedWitness ==
    /\ queue = <<>>
    /\ Len(received) = MaxMsgs * Cardinality(Workers)
    /\ \E w \in Workers, u \in Workers :
          /\ w # u
          /\ received[1] = Msg(w, 1)
          /\ received[2] = Msg(u, 1)
          /\ received[3] = Msg(w, 2)

\* The kinds the specification lists as stopping hoisting and as not stopping
\* it.
StoppingKinds == {"Entry", "FunctionArgs", "FunctionBody"}

NonStoppingKinds == {"Block", "With", "Label", "ClassName"}

\* C18: stops_hoisting is true exactly for Entry, FunctionArgs and
\* FunctionBody and false exactly for Block, With, Label and ClassName, and
\* every kind that does not stop hoisting orders strictly below every kind
\* that does: for the two scopes at hand, each answer computed is the one the
\* lists give, and an inner scope that does not stop hoisting inside one that
\* does compares below it.
StopsHoistingExactly ==
    /\ \A which \in {"inner", "enclosing"} :
          /\ (answers[which] = "true") => (kinds[which] \in StoppingKinds)
          /\ (answers[which] = "false") => (kinds[which] \in NonStoppingKinds)
    /\ (/\ kinds.inner \in NonStoppingKinds
        /\ kinds.enclosing \in StoppingKinds
        /\ answers.below # "none") => (answers.below = "true")
    /\ \A kind \in ScopeKinds :
          stops_hoisting(kind) <=> (kind \in StoppingKinds)

\* The binder has the three answers for the two kinds next to the boundary: a
\* ClassName scope inside an Entry scope.
HoistingBoundaryWitness ==
    /\ kinds = [inner |-> "ClassName", enclosing |-> "Entry"]
    /\ answers = [inner |-> "false", enclosing |-> "true", below |-> "true"]

\* C20: use_count_estimate is only ever accumulated: no call of
\* increment_use_count_estimate, merge_symbols, follow_symbols or
\* follow_all_symbols leaves any symbol with a smaller use_count_estimate
\* than it had before the call, also when the u32 counter is at or near its
\* maximum.
UseCountNeverDecreases ==
    [][\A r \in Refs :
          symbols'[r].use_count_estimate >= symbols[r].use_count_estimate]_vars

\* follow_symbols returns for s on the table syms.
Resolves(syms, s) == follow_symbols(syms, s, StackDepth).outcome = "ok"

\* C21: merge_symbols never splits a group: in a call merge_symbols(old, new)
\* where old or new already has a link, any two symbols for which
\* follow_symbols gave the same result before the call get the same result
\* from follow_symbols after it.
MergeKeepsGroups ==
    [][\A old \in Refs, new \in Refs :
        (/\ MergeSymbols(old, new)
         /\ ~aborted'
         /\ ~IsRoot(symbols, old) \/ ~IsRoot(symbols, new)) =>
            \A s \in Refs, t \in Refs :
                (/\ Resolves(symbols, s)
                 /\ Resolves(symbols, t)
                 /\ Canon(symbols, s) = Canon(symbols, t)) =>
                    /\ Resolves(symbols', s)
                    /\ Resolves(symbols', t)
                    /\ Canon(symbols', s) = Canon(symbols', t)]_vars

\* The table after differs from the table before in link fields of symbols
\* that have a link only, and every symbol resolves as before: follow_symbols
\* returns for the same symbols and returns the same references.
OnlyLinksCompressed(before, after) ==
    \A s \in Refs :
        /\ after[s] = [before[s] EXCEPT !.link = after[s].link]
        /\ IsRoot(before, s) => IsRoot(after, s)
        /\ LET was == follow_symbols(before, s, StackDepth)
               now == follow_symbols(after, s, StackDepth)
           IN  /\ now.outcome = was.outcome
               /\ was.outcome = "ok" => now.ret = was.ret

\* C22: follow_symbols and follow_all_symbols change nothing but link fields
\* and never change what a symbol resolves to: in the table a call leaves,
\* every symbol has the canonical reference it had before, its kind, name,
\* use_count_estimate, must_not_be_renamed and namespace_alias are as before,
\* and every symbol without a link is still without one.
FollowChangesOnlyLinks ==
    [][(/\ nmerges' = nmerges
        /\ \/ \E reference \in Refs : FollowSymbols(reference)
           \/ FollowAllSymbols) =>
            OnlyLinksCompressed(symbols, symbols')]_vars

\* Links have been rewritten by a follow_symbols call and then by a
\* follow_all_symbols call that completed, and the table is flat with some
\* symbol linked to its root.
FollowedAllWitness ==
    /\ compressed
    /\ barrier
    /\ ~aborted
    /\ Flat(symbols)
    /\ \E s \in Refs : ~IsRoot(symbols, s)

\* The codes declared under the comment "Right-associative" (ast.rs:99), and
\* the unary codes: the prefix, prefix update and postfix update ones.
AssignCodes ==
    {"BinOpAssign", "BinOpAddAssign", "BinOpSubAssign", "BinOpMulAssign",
     "BinOpDivAssign", "BinOpRemAssign", "BinOpPowAssign", "BinOpShlAssign",
     "BinOpShrAssign", "BinOpUShrAssign", "BinOpBitwiseOrAssign",
     "BinOpBitwiseAndAssign", "BinOpBitwiseXorAssign"}

UnaryCodes ==
    {"UnOpPos", "UnOpNeg", "UnOpCpl", "UnOpNot", "UnOpVoid", "UnOpTypeof",
     "UnOpDelete", "UnOpPreDec", "UnOpPreInc", "UnOpPostDec", "UnOpPostInc"}

\* How many of the three classes hold of code: left-associative,
\* right-associative, the comma operator.
ClassesOf(code) ==
    Cardinality({class \in {"left", "right", "comma"} :
        \/ class = "left" /\ is_left_associative(code)
        \/ class = "right" /\ is_right_associative(code)
        \/ class = "comma" /\ code = "BinOpComma"})

\* C23: the associativity classification is a partition of the binary
\* operators: every code from BinOpAdd onward is exactly one of
\* left-associative, right-associative and BinOpComma; the right-associative
\* codes are BinOpPow and exactly the codes with is_binary_assign, which are
\* the assignment codes; no unary code is left- or right-associative; and
\* each answer computed for the code at hand is the one this gives.
AssociativityPartitions ==
    /\ \A code \in OperatorCodes :
          /\ OperatorCodeGe(code, "BinOpAdd") <=> (code \notin UnaryCodes)
          /\ (code \notin UnaryCodes) => (ClassesOf(code) = 1)
          /\ (code \in UnaryCodes) => (ClassesOf(code) = 0)
          /\ is_binary_assign(code) <=> (code \in AssignCodes)
          /\ is_right_associative(code) <=>
                 (code = "BinOpPow" \/ is_binary_assign(code))
    /\ LET code == operator.code
           left == operator.answers["is_left_associative"]
           right == operator.answers["is_right_associative"]
           assign == operator.answers["is_binary_assign"]
       IN  /\ (left = "true") => (right # "true" /\ code # "BinOpComma")
           /\ (right = "true") => (code # "BinOpComma")
           /\ (left = "false" /\ right = "false") =>
                  (code \in UnaryCodes \cup {"BinOpComma"})
           /\ (right = "true" /\ assign = "false") => (code = "BinOpPow")
           /\ (assign = "true") => (right # "false")

\* The parser has asked all five questions about BinOpPow: it is
\* right-associative, not left-associative and no assignment.
PowRightAssociativeWitness ==
    /\ operator.code = "BinOpPow"
    /\ operator.answers =
           [method \in OperatorMethods |->
               IF method = "is_right_associative" THEN "true" ELSE "false"]

\* C24: range_of_string terminates for every source text and every location:
\* every call returns (or panics on a location past the end of the text).
RangeOfStringTerminates ==
    <>(string_range.pc \in {"returned", "panicked"})

\* The position in bytes, at or after j, of the first quote char that no
\* backslash precedes as an escape, or 0 when there is none.
RECURSIVE ClosingQuote(_, _, _)
ClosingQuote(bytes, quote, j) ==
    IF j > Len(bytes) THEN 0
    ELSE IF bytes[j] = quote THEN j
    ELSE IF bytes[j] = Backslash THEN ClosingQuote(bytes, quote, j + 2)
    ELSE ClosingQuote(bytes, quote, j + 1)

\* The range of the string literal at location: from location to just after
\* its closing quote, or the empty range at location when the text there
\* does not start with a quote or the literal is not closed.
StringLiteralRange(bytes, location) ==
    IF /\ location < Len(bytes)
       /\ bytes[location + 1] \in {DoubleQuote, SingleQuote}
       /\ ClosingQuote(bytes, bytes[location + 1], location + 2) # 0
    THEN <<location,
           ClosingQuote(bytes, bytes[location + 1], location + 2)>>
    ELSE <<location, location>>

\* C25: a call of range_of_string that returns, returns the range from
\* location to just after the matching unescaped closing quote when the text
\* at location starts with a quote that is closed, for every location, and
\* the empty range location..location otherwise.
RangeOfStringIsLiteral ==
    (string_range.pc = "returned") =>
        (string_range.range =
            StringLiteralRange(as_bytes(string_range.contents),
                               string_range.location))

\* The line terminators, and how many the text holds counting a carriage
\* return with the line feed after it as one.
LineTerminators ==
    {LineFeed, CarriageReturn, LineSeparator, ParagraphSeparator}

TerminatorCount(text) ==
    Cardinality({k \in DOMAIN text :
        /\ text[k] \in LineTerminators
        /\ ~(/\ text[k] = LineFeed
             /\ k > 1
             /\ text[k - 1] = CarriageReturn)})

\* The position in bytes just after the last line terminator of the text, 0
\* when it has none.
LineStart(text) ==
    LET ends == {k \in DOMAIN text : text[k] \in LineTerminators}
    IN  IF ends = {} THEN 0
        ELSE len(SubSeq(text, 1, CHOOSE k \in ends : \A j \in ends : j <= k))

\* C26: compute_line_and_column returns as line count the number of line
\* terminators of the text (line feed, carriage return, U+2028 and U+2029
\* count one each, a carriage return followed by a line feed counts as one)
\* and as last_line_start the position just after the last terminator, 0
\* when there is none.
LineAndColumnCountTerminators ==
    (line_and_column.pc = "returned") =>
        LET text == line_and_column.text
            result == line_and_column.result[1]
        IN  /\ result.line_count = TerminatorCount(text)
            /\ result.last_line_start = LineStart(text)

\* The text holds ASCII chars only.
is_ascii(str) == \A k \in DOMAIN str : str[k] < 128

\* C29: for every ASCII text and every spaces_per_tab >= 1,
\* render_tab_stops_len returns the length of what render_tab_stops returns;
\* the rendered text holds no tab; and char by char, a char other than a tab
\* is rendered as itself and a tab as between 1 and spaces_per_tab spaces that
\* bring the column to the next multiple of spaces_per_tab.
TabStopsLenIsRenderedLen ==
    LET with_tabs == tab_stops.with_tabs
        n == tab_stops.spaces_per_tab
    IN  is_ascii(with_tabs) =>
          /\ (tab_stops.rendered # <<>> /\ tab_stops.rendered_len # <<>>) =>
                 (tab_stops.rendered_len[1] = len(tab_stops.rendered[1]))
          /\ (tab_stops.rendered # <<>>) =>
                 ~contains_tab(tab_stops.rendered[1])
          /\ \A k \in DOMAIN with_tabs :
                LET before == render_tab_stops(SubSeq(with_tabs, 1, k - 1), n)
                    after == render_tab_stops(SubSeq(with_tabs, 1, k), n)
                IN  IF with_tabs[k] = Tab
                    THEN \E spaces \in 1..n :
                            /\ after = before \o repeat(Space, spaces)
                            /\ Len(after) % n = 0
                    ELSE after = Append(before, with_tabs[k])

\* Both functions have been called on "a\ta\t" with tab stops every 3
\* columns: the first tab is rendered as two spaces, the second as two.
TabAtOddColumnWitness ==
    /\ tab_stops.with_tabs = <<LetterA, Tab, LetterA, Tab>>
    /\ tab_stops.spaces_per_tab = 3
    /\ tab_stops.rendered =
           <<(<<LetterA, Space, Space, LetterA, Space, Space>>)>>
    /\ tab_stops.rendered_len = <<6>>

\* The message of the call at hand marks a range of more than one byte that
\* lies within one line, and the line fits the terminal.
MarksRangeInFittingLine ==
    LET msg == detail.msg
        contents == msg.source.contents
        to == msg.start + msg.length
    IN  /\ msg.length > 1
        /\ can_slice(contents, msg.start, to)
        /\ \A k \in DOMAIN slice(contents, msg.start, to) :
              slice(contents, msg.start, to)[k] \notin LineTerminators
        /\ LET line_start == LineStart(slice(contents, 0, msg.start))
               line_end == find_line_end(
                               slice(contents, line_start, len(contents)),
                               line_start, len(contents))
               line_text == render_tab_stops(
                                slice(contents, line_start, line_end), 2)
           IN  \/ detail.terminal_info.width = 0
               \/ len(line_text) <= detail.terminal_info.width

\* The columns of the line as displayed at which the marked range of the
\* message starts and ends, with tabs expanded.
MarkedColumns ==
    LET msg == detail.msg
        contents == msg.source.contents
        line_start == LineStart(slice(contents, 0, msg.start))
    IN  <<render_tab_stops_len(slice(contents, line_start, msg.start), 2),
          render_tab_stops_len(
              slice(contents, line_start, msg.start + msg.length), 2)>>

\* C27: for a message of length > 1 whose range lies within one line that
\* fits the terminal width, MsgDetail::new returns as marker a run of '~' as
\* long as the tab-expanded width of the range and source_marked is the text
\* of the range as displayed; the marker is a single '^' only when the
\* marked range is at most one column wide.
MarkerCoversRange ==
    (detail.pc = "returned" /\ MarksRangeInFittingLine) =>
        LET d == detail.result[1]
            columns == MarkedColumns
            width == columns[2] - columns[1]
        IN  /\ (width > 1) => (d.marker = repeat(Tilde, width))
            /\ (d.marker = <<Caret>>) => (width <= 1)
            /\ can_source_marked(d)
            /\ source_marked(d) = slice(d.source, columns[1], columns[2])

is_ascii_letter(c) ==
    \/ LatinCapitalA <= c /\ c <= LatinCapitalZ
    \/ LetterA <= c /\ c <= LetterZ

is_ascii_digit(c) == DigitZero <= c /\ c <= DigitNine

\* The chars of the stem that the name keeps: its letters, and its digits
\* that come after a letter.
RECURSIVE KeptChars(_, _)
KeptChars(stem, started) ==
    IF stem = <<>> THEN <<>>
    ELSE IF is_ascii_letter(Head(stem))
    THEN <<Head(stem)>> \o KeptChars(Tail(stem), TRUE)
    ELSE IF started /\ is_ascii_digit(Head(stem))
    THEN <<Head(stem)>> \o KeptChars(Tail(stem), started)
    ELSE KeptChars(Tail(stem), started)

\* The chars of the name other than underscores.
RECURSIVE WithoutUnderscores(_)
WithoutUnderscores(name) ==
    IF name = <<>> THEN <<>>
    ELSE IF Head(name) = Underscore
    THEN WithoutUnderscores(Tail(name))
    ELSE <<Head(name)>> \o WithoutUnderscores(Tail(name))

\* The runs of chars the name does not keep that come after the first kept
\* char of the stem: the positions where such a run starts.
OtherRuns(stem) ==
    {k \in DOMAIN stem :
        /\ KeptChars(SubSeq(stem, 1, k), FALSE)
               = KeptChars(SubSeq(stem, 1, k - 1), FALSE)
        /\ KeptChars(SubSeq(stem, 1, k - 1), FALSE) # <<>>
        /\ KeptChars(SubSeq(stem, 1, k - 1), FALSE)
               # KeptChars(SubSeq(stem, 1, k - 2), FALSE)}

\* C30: the name generate_non_unique_name_from_path returns is not empty
\* ("_" when the stem holds nothing usable), holds only A-Z, a-z, 0-9 and
\* '_', does not start with a digit, holds no two underscores in a row, keeps
\* every ASCII letter and every non-leading ASCII digit 0 through 9 of the
\* stem unchanged and in order, and holds one '_' for each run of other
\* chars after the first kept char.
NameIsIdentifierOfStem ==
    (name_from_path.pc = "returned") =>
        LET name == name_from_path.name
            stem == IF name_from_path.file_stem = <<>>
                    THEN <<>>
                    ELSE name_from_path.file_stem[1]
        IN  /\ name # <<>>
            /\ \A k \in DOMAIN name :
                  \/ is_ascii_letter(name[k])
                  \/ is_ascii_digit(name[k])
                  \/ name[k] = Underscore
            /\ ~is_ascii_digit(name[1])
            /\ \A k \in 1..(Len(name) - 1) :
                  ~(name[k] = Underscore /\ name[k + 1] = Underscore)
            /\ (KeptChars(stem, FALSE) = <<>>) => (name = <<Underscore>>)
            /\ (KeptChars(stem, FALSE) # <<>>) =>
                  /\ WithoutUnderscores(name) = KeptChars(stem, FALSE)
                  /\ Len(name) = Len(KeptChars(stem, FALSE))
                                     + Cardinality(OtherRuns(stem))

====
